---- MODULE Spec2Model ----
(***************************************************************************)
(* Model of WordHelpers.py: the document walker (iter_all_paragraphs),     *)
(* run-aware find/replace (find_replace, merge_runs) and highlight removal *)
(* (remove_highlighted, delete_paragraph, delete_row, delete_table) over   *)
(* the python-docx element tree.                                           *)
(*                                                                         *)
(* The element tree is an arena: node 1 is the document body, every node   *)
(* has a tag ("body", "p", "tbl", "tr", "tc"), a parent link (0 is None,   *)
(* what lxml's getparent() returns for a detached element) and an ordered  *)
(* list of children.  A paragraph owns a list of runs (text, highlight),   *)
(* the highlight of its paragraph mark (p.font.highlight_color) and the    *)
(* text of a hyperlink that ends it: runs inside w:hyperlink are not       *)
(* children of the paragraph, so Paragraph.runs does not list them, while  *)
(* Paragraph.text (python-docx 1.0 and later) includes their text.         *)
(* Text is a sequence of one-character strings.                            *)
(***************************************************************************)
EXTENDS Integers, Sequences, FiniteSets, TLC

VARIABLES
    doc,      \* the open document: its element tree (for Word2SettingDBs, its
              \* sequence of paragraphs)
    pc,       \* "idle", or the position inside find_replace: "fr_par" (at the
              \* next paragraph of the walk), "fr_merged" (between its two passes)
    err,      \* "none", or the exception that ended the last call
    call,     \* the arguments of the call in progress / last finished
    pre,      \* the element tree as it was when the last call started
    yielded,  \* the paragraphs yielded so far by the last iter_all_paragraphs call
    snap,     \* find_replace: the list findall() returned, clipped to start/end
    pi,       \* find_replace: index in snap of the paragraph being processed
    ncalls,   \* how many editing calls the script has made
    disk,     \* the files on disk: file name -> the element tree stored in it
    script    \* the running script: its name, arguments and loop variables

vars == <<doc, pc, err, call, pre, yielded, snap, pi, ncalls, disk, script>>

None == 0

\* ------------------------------------------------------------------------
\* Sequence helpers
\* ------------------------------------------------------------------------

RECURSIVE Concat(_)
\* ''.join(list of texts)
Concat(ss) == IF ss = <<>> THEN <<>> ELSE Head(ss) \o Concat(Tail(ss))

Range(s) == {s[i] : i \in DOMAIN s}

\* s without its elements equal to x (parent.remove(x))
Remove(s, x) == SelectSeq(s, LAMBDA y : y # x)

\* index of the first occurrence of x in s, 0 when absent
IndexOf(s, x) == IF x \in Range(s) THEN CHOOSE i \in DOMAIN s : s[i] = x /\ \A j \in 1..(i-1) : s[j] # x ELSE 0

\* ------------------------------------------------------------------------
\* The element tree
\* ------------------------------------------------------------------------

Nodes(d) == DOMAIN d.tag

Kids(d, n) == d.kids[n]

\* CT_Tc.p_lst, CT_Row.tc_lst, CT_Tbl.tr_lst: the direct children with one tag
KidsTagged(d, n, t) == SelectSeq(d.kids[n], LAMBDA k : d.tag[k] = t)

\* Run.text of every run of the paragraph; Paragraph.text is their
\* concatenation, followed by the text of the paragraph's hyperlink
RunTexts(d, p) == [i \in DOMAIN d.runs[p] |-> d.runs[p][i].text]
ParText(d, p) == Concat(RunTexts(d, p)) \o d.link[p]

RECURSIVE Descendants(_, _)
RECURSIVE DescendantsOfList(_, _)
\* lxml document order below n: every child followed by its own descendants
Descendants(d, n) == DescendantsOfList(d, d.kids[n])
DescendantsOfList(d, ks) ==
    IF ks = <<>> THEN <<>>
    ELSE <<Head(ks)>> \o Descendants(d, Head(ks)) \o DescendantsOfList(d, Tail(ks))

\* document._body._element.findall('.//w:p')
FindAllP(d) == SelectSeq(Descendants(d, 1), LAMBDA n : d.tag[n] = "p")

RECURSIVE IterFrom(_, _, _, _)
\* the loop of iter_all_paragraphs over the findall() list
IterFrom(lst, start_found, start, end) ==
    IF lst = <<>> THEN <<>>
    ELSE LET p == Head(lst) IN
         IF start_found \/ p = start
         THEN IF end # None /\ p = end
              THEN <<p>>
              ELSE <<p>> \o IterFrom(Tail(lst), TRUE, start, end)
         ELSE IterFrom(Tail(lst), FALSE, start, end)

\* document.paragraphs first, then the cells of document.tables
iter_all_paragraphs_old(d, start, end) ==
    LET blockPars(n) == KidsTagged(d, n, "p")
        cellsOfRow(r) == KidsTagged(d, r, "tc")
        rowPars(r) == Concat([i \in DOMAIN cellsOfRow(r) |-> blockPars(cellsOfRow(r)[i])])
        rowsOf(t) == KidsTagged(d, t, "tr")
        tblPars(t) == Concat([i \in DOMAIN rowsOf(t) |-> rowPars(rowsOf(t)[i])])
        tbls == KidsTagged(d, 1, "tbl")
    IN  blockPars(1) \o Concat([i \in DOMAIN tbls |-> tblPars(tbls[i])])

iter_all_paragraphs(d, start, end) == IterFrom(FindAllP(d), start = None, start, end)

\* ------------------------------------------------------------------------
\* Regular expressions: the model takes literal patterns (a non-empty
\* sequence of ordinary characters), matched as re does: leftmost first,
\* matches not overlapping.  Offsets are Python's (0-based, end exclusive).
\* ------------------------------------------------------------------------

\* the pattern matches the text at offset i
MatchAt(text, pat, i) ==
    i + Len(pat) <= Len(text) /\ SubSeq(text, i + 1, i + Len(pat)) = pat

RECURSIVE FindIterFrom(_, _, _)
FindIterFrom(text, pat, i) ==
    IF i + Len(pat) > Len(text) THEN <<>>
    ELSE IF MatchAt(text, pat, i)
         THEN <<[start |-> i, end |-> i + Len(pat)]>> \o FindIterFrom(text, pat, i + Len(pat))
         ELSE FindIterFrom(text, pat, i + 1)

RECURSIVE ParenDepth(_, _)
\* how many parentheses of the pattern are open at its end; negative once a
\* ")" closes nothing
ParenDepth(pat, depth) ==
    IF depth < 0 \/ pat = <<>> THEN depth
    ELSE ParenDepth(Tail(pat), depth + (IF Head(pat) = "(" THEN 1
                                        ELSE IF Head(pat) = ")" THEN -1 ELSE 0))

\* the pattern is well formed: its parentheses are balanced
Balanced(pat) == ParenDepth(pat, 0) = 0

\* a compile that takes every pattern, reading its characters literally
compile_lenient(pat) == "none"

\* re.compile(find_text): "none", or the exception it raises
compile(pat) == IF Balanced(pat) THEN "none" ELSE "re.error"

\* [(m.start(), m.end()) for m in find_re.finditer(text)]
finditer(pat, text) == FindIterFrom(text, pat, 0)

\* find_re.search(text) is not None
search(pat, text) == finditer(pat, text) # <<>>

RECURSIVE SubFrom(_, _, _, _)
SubFrom(text, pat, repl, i) ==
    IF i + Len(pat) > Len(text) THEN SubSeq(text, i + 1, Len(text))
    ELSE IF MatchAt(text, pat, i)
         THEN repl \o SubFrom(text, pat, repl, i + Len(pat))
         ELSE <<text[i + 1]>> \o SubFrom(text, pat, repl, i + 1)

\* a sub that drops every match instead of putting the replacement
sub_delete(pat, repl, text) == SubFrom(text, pat, <<>>, 0)

\* find_re.sub(replace_text, text)
sub(pat, repl, text) == SubFrom(text, pat, repl, 0)

\* ------------------------------------------------------------------------
\* find_replace
\* ------------------------------------------------------------------------

RECURSIVE Sum(_)
Sum(ns) == IF ns = <<>> THEN 0 ELSE Head(ns) + Sum(Tail(ns))

\* list(accumulate(ns)): the running totals
accumulate(ns) == [k \in DOMAIN ns |-> Sum(SubSeq(ns, 1, k))]

\* run_len and run_idx of a paragraph as it is now
run_len(d, p) == [i \in DOMAIN d.runs[p] |-> Len(d.runs[p][i].text)]
run_idx(d, p) == <<0>> \o accumulate(run_len(d, p))

\* the 0-based indices n, in order, of the intervals (idx[n], idx[n+1])
\* that overlap the match: start < rend and end > rstart
runs_containing(idx, m) ==
    SelectSeq([k \in 1..(Len(idx) - 1) |-> k - 1],
              LAMBDA n : m.start < idx[n + 2] /\ m.end > idx[n + 1])

\* delete_run for every run of the paragraph whose 0-based index is in ns
delete_runs(d, p, ns) ==
    LET keep == SelectSeq([k \in DOMAIN d.runs[p] |-> k], LAMBDA k : (k - 1) \notin ns)
    IN  [d EXCEPT !.runs[p] = [j \in DOMAIN keep |-> d.runs[p][keep[j]]]]

\* merge_runs without its delete_run: the merged runs stay in the paragraph
merge_runs_keeping(d, p, ns) ==
    LET first == Head(ns) + 1
        joined == Concat([j \in DOMAIN ns |-> d.runs[p][ns[j] + 1].text])
    IN  [d EXCEPT !.runs[p][first].text = joined]

\* merge_runs([p.runs[n] for n in ns]): the first run of the list takes the
\* text of the others, one after the other, and the others are deleted
merge_runs(d, p, ns) ==
    LET first == Head(ns) + 1
        joined == Concat([j \in DOMAIN ns |-> d.runs[p][ns[j] + 1].text])
    IN  delete_runs([d EXCEPT !.runs[p][first].text = joined], p, Range(Tail(ns)))

RECURSIVE MergeLoop(_, _, _, _)
\* the first pass over the matches: idx is the run_idx computed before the
\* loop, ms the matches still to come; p.runs is read anew for every match,
\* and p.runs[n] raises IndexError for an index the paragraph no longer has
MergeLoop(d, p, idx, ms) ==
    IF ms = <<>> THEN [doc |-> d, err |-> "none"]
    ELSE LET rc == runs_containing(idx, Head(ms)) IN
         IF Len(rc) > 1
         THEN IF \E j \in DOMAIN rc : rc[j] >= Len(d.runs[p])
              THEN [doc |-> d, err |-> "IndexError"]
              ELSE MergeLoop(merge_runs(d, p, rc), p, idx, Tail(ms))
         ELSE MergeLoop(d, p, idx, Tail(ms))

\* lines 122-139
MergePass(d, p, pat) == MergeLoop(d, p, run_idx(d, p), finditer(pat, ParText(d, p)))

\* lines 141-159: the first run overlapping each match gets find_re.sub
ReplacePass(d, p, pat, repl) ==
    LET idx == run_idx(d, p)
        ms == finditer(pat, ParText(d, p))
        hit == {Head(runs_containing(idx, ms[j])) : j \in {j \in DOMAIN ms : runs_containing(idx, ms[j]) # <<>>}}
    IN  [d EXCEPT !.runs[p] = [k \in DOMAIN d.runs[p] |->
            IF (k - 1) \in hit
            THEN [d.runs[p][k] EXCEPT !.text = sub(pat, repl, d.runs[p][k].text)]
            ELSE d.runs[p][k]]]

\* ------------------------------------------------------------------------
\* Deleting elements.  An operation that can raise returns the tree it
\* leaves behind together with the exception ("none" when it returns).
\* ------------------------------------------------------------------------

Ok(d) == [doc |-> d, err |-> "none"]
Raise(d, e) == [doc |-> d, err |-> e]

\* parent.remove(n) for an attached element
Detach(d, n) ==
    [d EXCEPT !.kids[d.parent[n]] = Remove(@, n), !.parent[n] = None]

\* CT_P.clear_content(): every run leaves the paragraph, pPr stays
clear_content(d, p) == [d EXCEPT !.runs[p] = <<>>, !.link[p] = <<>>]

\* delete_paragraph that only clears the content and never removes
delete_paragraph_clear_only(d, p) == Ok(clear_content(d, p))

\* delete_paragraph without the test for the last paragraph of a cell
delete_paragraph_any(d, p) ==
    LET d1 == clear_content(d, p)
    IN  IF d1.parent[p] = None THEN Raise(d1, "AttributeError")
        ELSE Ok(Detach(d1, p))

\* delete_paragraph(paragraph); None.remove raises AttributeError
delete_paragraph(d, p) ==
    LET d1 == clear_content(d, p)
        par == d1.parent[p]
    IN  IF par # None /\ d1.tag[par] = "tc" /\ Len(KidsTagged(d1, par, "p")) < 2
        THEN Ok(d1)
        ELSE IF par = None THEN Raise(d1, "AttributeError")
        ELSE Ok(Detach(d1, p))

\* delete_table(tbl)
delete_table(d, tbl) ==
    IF d.parent[tbl] = None THEN Raise(d, "AttributeError")
    ELSE Ok(Detach(d, tbl))

\* delete_row(row)
delete_row(d, row) ==
    LET tbl == d.parent[row]
    IN  IF tbl = None THEN Raise(d, "AttributeError")
        ELSE LET d1 == Detach(d, row)
             IN  IF Len(KidsTagged(d1, tbl, "tr")) = 0
                 THEN delete_table(d1, tbl)
                 ELSE Ok(d1)

\* ------------------------------------------------------------------------
\* remove_highlighted
\* ------------------------------------------------------------------------

Digits == {"0", "1", "2", "3", "4", "5", "6", "7", "8", "9"}

RECURSIVE LeadingDigits(_)
\* how many characters [0-9]+ takes at the start of the text
LeadingDigits(t) ==
    IF t # <<>> /\ Head(t) \in Digits THEN 1 + LeadingDigits(Tail(t)) ELSE 0

RECURSIVE StripSpaces(_)
\* the text after ' *' has taken its spaces
StripSpaces(t) == IF t # <<>> /\ Head(t) = " " THEN StripSpaces(Tail(t)) ELSE t

IsPrefix(a, t) == Len(a) <= Len(t) /\ SubSeq(t, 1, Len(a)) = a

\* $ : the end of the text, or just before a newline that ends it
AtEnd(t) == t = <<>> \/ t = <<"\n">>

Not52AA1 == <<"N", "O", "T", " ", "5", "2", "A", "A", "1">>
Not52AA1Or2 == <<"N", "O", "T", " ", "(", "5", "2", "A", "A", "1", " ", "O", "R", " ",
                 "5", "2", "A", "A", "2", ")">>

\* re.match('[0-9]+\:(<word> *)?$', t)
MatchesLogicRow(word, t) ==
    LET n == LeadingDigits(t)
        rest == SubSeq(t, n + 2, Len(t))
    IN  /\ n >= 1
        /\ Len(t) > n
        /\ t[n + 1] = ":"
        /\ \/ AtEnd(rest)
           \/ IsPrefix(word, rest) /\ AtEnd(StripSpaces(SubSeq(rest, Len(word) + 1, Len(rest))))

\* lines 185-187
IsLogicPlaceholder(t) == MatchesLogicRow(Not52AA1, t) \/ MatchesLogicRow(Not52AA1Or2, t)

\* lines 174-179: the text of the paragraphs that are direct children of
\* the cells of the row
row_text(d, row) ==
    LET cells == KidsTagged(d, row, "tc")
        cellText(tc) == LET ps == KidsTagged(d, tc, "p")
                        IN  Concat([i \in DOMAIN ps |-> ParText(d, ps[i])])
    IN  Concat([i \in DOMAIN cells |-> cellText(cells[i])])

\* the row test with the rule for logic tables applied whatever the flag
RowCheckAnyFlag(d, p, clean) ==
    LET par == d.parent[p] IN
    IF par # None /\ d.tag[par] = "tc"
    THEN LET row == d.parent[par]
             t == row_text(d, row)
         IN  IF Len(t) = 0 \/ IsLogicPlaceholder(t) THEN delete_row(d, row) ELSE Ok(d)
    ELSE Ok(d)

\* lines 171-188: the row of the paragraph's cell goes when its text is empty
RowCheck(d, p, clean) ==
    LET par == d.parent[p] IN
    IF par # None /\ d.tag[par] = "tc"
    THEN LET row == d.parent[par]
             t == row_text(d, row)
         IN  IF Len(t) = 0 THEN delete_row(d, row)
             ELSE IF clean /\ IsLogicPlaceholder(t) THEN delete_row(d, row)
             ELSE Ok(d)
    ELSE Ok(d)

\* r.clear() that leaves the text of the run in place
ClearRunNot(d, p, j) == d

\* r.clear() on run j of the list p.runs gave when the loop started: the
\* run keeps its properties; once clear_content has taken the runs out of
\* the paragraph the run is no longer part of it
ClearRun(d, p, j) ==
    IF j <= Len(d.runs[p]) THEN [d EXCEPT !.runs[p][j].text = <<>>] ELSE d

RECURSIVE RunLoop(_, _, _, _, _, _)
\* lines 165-188: hls are the highlights of the runs p.runs gave when the
\* loop started, j the run the loop is at
RunLoop(d, p, hls, j, color, clean) ==
    IF j > Len(hls) THEN Ok(d)
    ELSE IF hls[j] # color THEN RunLoop(d, p, hls, j + 1, color, clean)
    ELSE LET d1 == ClearRun(d, p, j)
             r2 == IF Len(ParText(d1, p)) = 0 THEN delete_paragraph(d1, p) ELSE Ok(d1)
         IN  IF r2.err # "none" THEN r2
             ELSE LET r3 == RowCheck(r2.doc, p, clean)
                  IN  IF r3.err # "none" THEN r3
                      ELSE RunLoop(r3.doc, p, hls, j + 1, color, clean)

\* the check without its test of the mark's color: every empty paragraph goes
MarkCheckAnyColor(d, p, color) ==
    IF Len(ParText(d, p)) = 0 /\ d.parent[p] # None
    THEN delete_paragraph(d, p)
    ELSE Ok(d)

\* lines 190-196: an empty paragraph whose mark carries the highlight
MarkCheck(d, p, color) ==
    IF Len(ParText(d, p)) = 0 /\ d.phl[p] = color /\ d.parent[p] # None
    THEN delete_paragraph(d, p)
    ELSE Ok(d)

RECURSIVE ParLoop(_, _, _, _)
\* line 164: ps are the paragraphs findall() returned that are still to come
ParLoop(d, ps, color, clean) ==
    IF ps = <<>> THEN Ok(d)
    ELSE LET p == Head(ps)
             r1 == RunLoop(d, p, [i \in DOMAIN d.runs[p] |-> d.runs[p][i].hl], 1, color, clean)
         IN  IF r1.err # "none" THEN r1
             ELSE LET r2 == MarkCheck(r1.doc, p, color)
                  IN  IF r2.err # "none" THEN r2
                      ELSE ParLoop(r2.doc, Tail(ps), color, clean)

\* remove_highlighted(document, remove_color, clean_logic_tables)
remove_highlighted(d, color, clean) ==
    ParLoop(d, iter_all_paragraphs(d, None, None), color, clean)

\* ------------------------------------------------------------------------
\* Documents the model starts from
\* ------------------------------------------------------------------------

\* the parent links that go with a table of child lists
ParentOf(kids, n) ==
    IF \E m \in DOMAIN kids : n \in Range(kids[m])
    THEN CHOOSE m \in DOMAIN kids : n \in Range(kids[m])
    ELSE None

MkDoc(tag, kids, runs, phl) ==
    [tag |-> tag, kids |-> kids, parent |-> [n \in DOMAIN tag |-> ParentOf(kids, n)],
     runs |-> runs, phl |-> phl, link |-> [n \in DOMAIN tag |-> <<>>]]

Run(t, h) == [text |-> t, hl |-> h]

ParsOfTag(tag) == {n \in DOMAIN tag : tag[n] = "p"}

\* body[ p2, p3, p4 ]
FlatTag == <<"body", "p", "p", "p">>
FlatKids == << <<2, 3, 4>>, <<>>, <<>>, <<>> >>

\* body[ p2, tbl3[ tr4[ tc5[p6, p7], tc8[p9] ], tr10[ tc11[p12] ] ] ]
RowsTag == <<"body", "p", "tbl", "tr", "tc", "p", "p", "tc", "p", "tr", "tc", "p">>
RowsKids == << <<2, 3>>, <<>>, <<4, 10>>, <<5, 8>>, <<6, 7>>, <<>>, <<>>, <<9>>, <<>>,
               <<11>>, <<12>>, <<>> >>

\* body[ tbl2[ tr3[ tc4[ p5, tbl6[ tr7[ tc8[p9] ] ], p10 ] ] ], p11 ]
NestTag == <<"body", "tbl", "tr", "tc", "p", "tbl", "tr", "tc", "p", "p", "p">>
NestKids == << <<2, 11>>, <<3>>, <<4>>, <<5, 6, 10>>, <<>>, <<7>>, <<8>>, <<9>>, <<>>,
               <<>>, <<>> >>

\* body[ p2, tbl3[ tr4[ tc5[p6] ] ], p7, tbl8[ tr9[ tc10[p11], tc12[p13] ] ] ]
MixedTag == <<"body", "p", "tbl", "tr", "tc", "p", "p", "tbl", "tr", "tc", "p", "tc", "p">>
MixedKids == << <<2, 3, 7, 8>>, <<>>, <<4>>, <<5>>, <<6>>, <<>>, <<>>, <<9>>, <<10, 12>>,
                <<11>>, <<>>, <<13>>, <<>> >>

\* body[ tbl2[ tr3[ tc4[p5, p6], tc7[p8] ], tr9[ tc10[p11] ] ] ]
TwoRowTag == <<"body", "tbl", "tr", "tc", "p", "p", "tc", "p", "tr", "tc", "p">>
TwoRowKids == << <<2>>, <<3, 9>>, <<4, 7>>, <<5, 6>>, <<>>, <<>>, <<8>>, <<>>, <<10>>,
                 <<11>>, <<>> >>

Shapes == { <<FlatTag, FlatKids>>, <<RowsTag, RowsKids>>, <<NestTag, NestKids>>,
            <<MixedTag, MixedKids>>, <<TwoRowTag, TwoRowKids>> }

\* the shapes highlight removal is run on
TableShapes == { <<NestTag, NestKids>>, <<TwoRowTag, TwoRowKids>> }

\* what a paragraph of a generated document holds: its runs and the
\* highlight of its paragraph mark
ParChoices ==
    { [runs |-> <<>>, phl |-> "NONE"],
      [runs |-> <<>>, phl |-> "RED"],
      [runs |-> <<Run(<<"x">>, "RED")>>, phl |-> "NONE"],
      [runs |-> <<Run(<<"x">>, "RED"), Run(<<"y">>, "YELLOW")>>, phl |-> "NONE"],
      [runs |-> <<Run(<<"x">>, "RED"), Run(<<>>, "RED")>>, phl |-> "NONE"],
      [runs |-> <<Run(<<"1", ":">>, "NONE"), Run(<<"x">>, "RED")>>, phl |-> "NONE"] }

RemovableColors == {"RED", "YELLOW"}

\* the documents of a shape, every paragraph holding one of the choices
DocsOfShape(sh) ==
    { MkDoc(sh[1], sh[2],
            [n \in DOMAIN sh[1] |-> IF sh[1][n] = "p" THEN c[n].runs ELSE <<>>],
            [n \in DOMAIN sh[1] |-> IF sh[1][n] = "p" THEN c[n].phl ELSE "NONE"])
      : c \in [ParsOfTag(sh[1]) -> ParChoices] }

\* a document of the given shape whose paragraphs all hold one unhighlighted run
PlainDoc(sh) ==
    MkDoc(sh[1], sh[2],
          [n \in DOMAIN sh[1] |-> IF sh[1][n] = "p" THEN <<Run(<<"z">>, "NONE")>> ELSE <<>>],
          [n \in DOMAIN sh[1] |-> "NONE"])

NoCall == [fn |-> "none", start |-> None, end |-> None, find |-> <<>>, repl |-> <<>>,
           color |-> "NONE", clean |-> FALSE,
           prev |-> [fn |-> "none", find |-> <<>>, repl |-> <<>>]]

\* no file on disk
NoFiles == <<>>

\* no script is running: the operations are called on an open document
NoScript == [name |-> "none", documentParam |-> <<>>, save_file |-> <<>>,
             std |-> "none", todo |-> {}, remove |-> {}, clear |-> {},
             replace |-> <<>>, master |-> <<>>,
             bookmark |-> None, replace_start |-> None]

\* ------------------------------------------------------------------------
\* iter_all_paragraphs as an operation
\* ------------------------------------------------------------------------

\* list(iter_all_paragraphs(document, start, end)) for paragraphs of the document
IterAllParagraphs ==
    /\ pc = "idle"
    /\ \E s \in {None} \cup Range(FindAllP(doc)), e \in {None} \cup Range(FindAllP(doc)) :
          /\ yielded' = iter_all_paragraphs(doc, s, e)
          /\ call' = [NoCall EXCEPT !.fn = "iter_all_paragraphs", !.start = s, !.end = e]
    /\ pre' = doc
    /\ err' = "none"
    /\ UNCHANGED <<disk, script, doc, pc, snap, pi, ncalls>>

InitWalk ==
    /\ doc \in {PlainDoc(sh) : sh \in Shapes}
    /\ pc = "idle"
    /\ err = "none"
    /\ call = NoCall
    /\ pre = doc
    /\ yielded = <<>>
    /\ snap = <<>>
    /\ pi = 0
    /\ ncalls = 0
    /\ disk = NoFiles
    /\ script = NoScript

NextWalk == IterAllParagraphs

SpecWalk == InitWalk /\ [][NextWalk]_vars

\* ------------------------------------------------------------------------
\* find_replace as an operation: one step per pass over a paragraph
\* ------------------------------------------------------------------------

\* longest flattened text of a generated paragraph
MaxTextLen == 5

FRAlphabet == {"b", "c"}

FRTexts == UNION {[1..k -> FRAlphabet] : k \in 0..MaxTextLen}
             \cup { <<"a", "b", "c", "d", "e", "f">> }

\* two literal patterns and one that does not compile: "b("
FRPatterns == { <<"b", "c">>, <<"b", "c", "d">>, <<"b", "(">> }

FRReplacements == { <<"X">>, <<>> }

RECURSIVE SortedSeq(_)
\* the elements of a set of numbers in increasing order
SortedSeq(S) == IF S = {} THEN <<>>
                ELSE LET m == CHOOSE x \in S : \A y \in S : x <= y
                     IN  <<m>> \o SortedSeq(S \ {m})

\* the text cut into runs at the given offsets
Pieces(text, cuts) ==
    IF text = <<>> THEN <<>>
    ELSE LET b == SortedSeq({0, Len(text)} \cup cuts)
         IN  [i \in 1..(Len(b) - 1) |-> Run(SubSeq(text, b[i] + 1, b[i + 1]), "NONE")]

\* an empty run put before position k; none for k = 0
InsertEmpty(rs, k) ==
    IF k = 0 THEN rs
    ELSE SubSeq(rs, 1, k - 1) \o <<Run(<<>>, "NONE")>> \o SubSeq(rs, k, Len(rs))

\* body[ p2 ]
OneTag == <<"body", "p">>
OneKids == << <<2>>, <<>> >>

OneParDoc(rs) == MkDoc(OneTag, OneKids, << <<>>, rs >>, <<"NONE", "NONE">>)

\* the one-paragraph document whose paragraph is a hyperlink with the text
\* and has no run of its own
LinkOnlyDoc(t) == [OneParDoc(<<>>) EXCEPT !.link[2] = t]

FRLinkTexts == { <<"b", "c">>, <<"c", "b">> }

\* find_replace(document, find_text, replace_text): compile, start the walk
FindReplaceCall ==
    /\ pc = "idle"
    /\ call.fn # "find_replace"
    /\ \E f \in FRPatterns, r \in FRReplacements :
          /\ call' = [NoCall EXCEPT !.fn = "find_replace", !.find = f, !.repl = r]
          /\ err' = compile(f)
          /\ pc' = IF compile(f) = "none" THEN "fr_par" ELSE "idle"
          /\ snap' = IF compile(f) = "none" THEN iter_all_paragraphs(doc, None, None)
                     ELSE <<>>
          /\ pi' = IF compile(f) = "none" THEN 1 ELSE 0
    /\ pre' = doc
    /\ UNCHANGED <<disk, script, doc, yielded, ncalls>>

\* line 117: the paragraph's text has no match, on to the next paragraph
FindReplaceSkip ==
    /\ pc = "fr_par"
    /\ pi <= Len(snap)
    /\ ~search(call.find, ParText(doc, snap[pi]))
    /\ pi' = pi + 1
    /\ UNCHANGED <<disk, script, doc, pc, err, call, pre, yielded, snap, ncalls>>

\* lines 122-139: the merge pass over the matches of the paragraph
FindReplaceMerge ==
    /\ pc = "fr_par"
    /\ pi <= Len(snap)
    /\ search(call.find, ParText(doc, snap[pi]))
    /\ LET res == MergePass(doc, snap[pi], call.find) IN
          /\ doc' = res.doc
          /\ err' = res.err
          /\ pc' = IF res.err = "none" THEN "fr_merged" ELSE "idle"
    /\ UNCHANGED <<disk, script, call, pre, yielded, snap, pi, ncalls>>

\* lines 141-159: the replace pass, then the next paragraph
FindReplaceSub ==
    /\ pc = "fr_merged"
    /\ doc' = ReplacePass(doc, snap[pi], call.find, call.repl)
    /\ pi' = pi + 1
    /\ pc' = "fr_par"
    /\ UNCHANGED <<disk, script, err, call, pre, yielded, snap, ncalls>>

\* the walk is exhausted: find_replace returns
FindReplaceReturn ==
    /\ pc = "fr_par"
    /\ pi > Len(snap)
    /\ pc' = "idle"
    /\ UNCHANGED <<disk, script, doc, err, call, pre, yielded, snap, pi, ncalls>>

InitFR ==
    /\ \/ \E t \in FRTexts : \E cuts \in SUBSET (1..(Len(t) - 1)) :
             \E k \in 0..(Cardinality(cuts) + 2) :
                /\ k <= Len(Pieces(t, cuts)) + 1
                /\ doc = OneParDoc(InsertEmpty(Pieces(t, cuts), k))
       \/ \E t \in FRLinkTexts : doc = LinkOnlyDoc(t)
    /\ pc = "idle"
    /\ err = "none"
    /\ call = NoCall
    /\ pre = doc
    /\ yielded = <<>>
    /\ snap = <<>>
    /\ pi = 0
    /\ ncalls = 0
    /\ disk = NoFiles
    /\ script = NoScript

NextFR ==
    \/ FindReplaceCall
    \/ FindReplaceSkip
    \/ FindReplaceMerge
    \/ FindReplaceSub
    \/ FindReplaceReturn

SpecFR == InitFR /\ [][NextFR]_vars

\* the call has returned normally
Returned(fn) == pc = "idle" /\ call.fn = fn /\ err = "none"

\* the 0-based span lies inside one run of the paragraph
InOneRun(d, p, m) ==
    LET idx == run_idx(d, p)
    IN  \E k \in 1..Len(d.runs[p]) : idx[k] <= m.start /\ m.end <= idx[k + 1]

\* C1 (as claimed): after the merge pass every match span of the pattern in
\* the paragraph's flattened text lies inside a single run, for any number
\* of matches crossing run boundaries.
C1_MatchesInOneRun ==
    pc = "fr_merged" =>
        LET ms == finditer(call.find, ParText(doc, snap[pi]))
        IN  \A j \in DOMAIN ms : InOneRun(doc, snap[pi], ms[j])

\* find_replace(document, "bcd", "X") has returned for the paragraph with
\* runs "ab", "cd", "ef"
C2_IsExample ==
    /\ RunTexts(pre, 2) = << <<"a", "b">>, <<"c", "d">>, <<"e", "f">> >>
    /\ call.find = <<"b", "c", "d">>
    /\ call.repl = <<"X">>
    /\ Returned("find_replace")

\* C2 (as claimed): runs "ab","cd","ef", pattern "bcd", replacement "X":
\* the paragraph is left as a single run containing "aXef".
C2_SingleRun ==
    C2_IsExample => RunTexts(doc, 2) = << <<"a", "X", "e", "f">> >>

\* C2 (amended): the paragraph is left with two runs, "aX" (the merged run,
\* where the match was replaced) and the untouched "ef"; flattened "aXef".
C2_TwoRuns ==
    C2_IsExample => RunTexts(doc, 2) = << <<"a", "X">>, <<"e", "f">> >>

\* the example call has returned
C2_Witness == C2_IsExample /\ ParText(doc, 2) = <<"a", "X", "e", "f">>

\* ------------------------------------------------------------------------
\* remove_highlighted as an operation
\* ------------------------------------------------------------------------

\* how many remove_highlighted calls one script run makes at most
MaxCalls == 2

\* remove_highlighted(document, color, clean_logic_tables); an exception
\* ends the script, so no call follows one that raised
RemoveHighlighted ==
    /\ pc = "idle"
    /\ err = "none"
    /\ ncalls < MaxCalls
    /\ \E color \in RemovableColors, clean \in BOOLEAN :
          LET res == remove_highlighted(doc, color, clean) IN
             /\ doc' = res.doc
             /\ err' = res.err
             /\ call' = [NoCall EXCEPT !.fn = "remove_highlighted", !.color = color,
                                       !.clean = clean]
    /\ pre' = doc
    /\ ncalls' = ncalls + 1
    /\ UNCHANGED <<disk, script, pc, yielded, snap, pi>>

Init ==
    /\ doc \in UNION {DocsOfShape(sh) : sh \in TableShapes}
    /\ pc = "idle"
    /\ err = "none"
    /\ call = NoCall
    /\ pre = doc
    /\ yielded = <<>>
    /\ snap = <<>>
    /\ pi = 0
    /\ ncalls = 0
    /\ disk = NoFiles
    /\ script = NoScript

Next == RemoveHighlighted

Spec == Init /\ [][Next]_vars

\* ------------------------------------------------------------------------
\* Document order, stated on the tree
\* ------------------------------------------------------------------------

RECURSIVE InBody(_, _)
\* n is still part of the document: its parent chain ends at the body
InBody(d, n) == IF n = 1 THEN TRUE
                ELSE IF d.parent[n] = None THEN FALSE
                ELSE InBody(d, d.parent[n])

RECURSIVE Path(_, _)
\* the child positions leading from the root of n's tree down to n
Path(d, n) == IF d.parent[n] = None THEN <<>>
              ELSE Path(d, d.parent[n]) \o <<IndexOf(d.kids[d.parent[n]], n)>>

\* a comes before b in reading order (neither is an ancestor of the other)
PathBefore(a, b) ==
    \E i \in 1..Len(a) : /\ i <= Len(b)
                         /\ \A j \in 1..(i-1) : a[j] = b[j]
                         /\ a[i] < b[i]

DocPars(d) == {n \in Nodes(d) : d.tag[n] = "p" /\ InBody(d, n)}

\* C4: with no start and no end the walker yields every paragraph of the
\* body exactly once, in reading order; a paragraph nested in a table comes
\* where the table stands in its parent, cells row-major, left to right.
C4_WalkDocumentOrder ==
    (call.fn = "iter_all_paragraphs" /\ call.start = None /\ call.end = None) =>
        /\ Range(yielded) = DocPars(doc)
        /\ Len(yielded) = Cardinality(DocPars(doc))
        /\ \A i, j \in DOMAIN yielded :
              i < j => PathBefore(Path(doc, yielded[i]), Path(doc, yielded[j]))

\* a full walk of a document with nested and interleaved tables has been made
C4_Witness ==
    /\ call.fn = "iter_all_paragraphs" /\ call.start = None /\ call.end = None
    /\ \E p \in Range(yielded) : doc.tag[doc.parent[p]] = "tc"
                                  /\ doc.parent[doc.parent[doc.parent[doc.parent[p]]]] # 1
    /\ doc.tag[doc.kids[1][1]] = "tbl"
    /\ Len(yielded) = 4

\* position of a paragraph in the reading order of the document
PosOf(d, p) == Cardinality({q \in DocPars(d) : q = p \/ PathBefore(Path(d, q), Path(d, p))})

\* C5 (as claimed): for every pair of start and end the walker yields exactly
\* the inclusive range between them, and nothing outside that range.
C5_RangeExact ==
    call.fn = "iter_all_paragraphs" =>
        LET n == Cardinality(DocPars(doc))
            s == IF call.start = None THEN 1 ELSE PosOf(doc, call.start)
            e == IF call.end = None THEN n ELSE PosOf(doc, call.end)
            lo == IF s <= e THEN s ELSE e
            hi == IF s <= e THEN e ELSE s
        IN  /\ \A i \in DOMAIN yielded : lo <= PosOf(doc, yielded[i]) /\ PosOf(doc, yielded[i]) <= hi
            /\ s <= e => /\ Len(yielded) = e - s + 1
                         /\ \A i \in DOMAIN yielded : PosOf(doc, yielded[i]) = s + i - 1

\* ------------------------------------------------------------------------
\* Highlight removal: what a finished call leaves behind
\* ------------------------------------------------------------------------

\* the last remove_highlighted call returned (did not raise)
RHReturned == call.fn = "remove_highlighted" /\ err = "none"

\* the paragraph had a run with that highlight
HadColoredRun(d, p, color) == \E i \in DOMAIN d.runs[p] : d.runs[p][i].hl = color

\* the paragraph had text in a run with that highlight
HadColoredText(d, p, color) ==
    \E i \in DOMAIN d.runs[p] : d.runs[p][i].hl = color /\ d.runs[p][i].text # <<>>

\* the text of every paragraph at or below n, in reading order
FullText(d, n) ==
    LET ps == SelectSeq(<<n>> \o Descendants(d, n), LAMBDA k : d.tag[k] = "p")
    IN  Concat([i \in DOMAIN ps |-> ParText(d, ps[i])])

\* C6: after remove_highlighted(document, color) has completed no run of a
\* paragraph still in the document has highlight color and non-empty text.
C6_NoColoredTextLeft ==
    RHReturned =>
        \A p \in DocPars(doc) : \A i \in DOMAIN doc.runs[p] :
            doc.runs[p][i].hl = call.color => doc.runs[p][i].text = <<>>

\* a paragraph stayed in the document with a cleared run of the removed
\* color next to text of another color
C6_Witness ==
    /\ RHReturned
    /\ \E p \in DocPars(doc) : \E i, j \in DOMAIN doc.runs[p] :
          /\ doc.runs[p][i].hl = call.color
          /\ pre.runs[p][i].text # <<>>
          /\ doc.runs[p][i].text = <<>>
          /\ doc.runs[p][j].hl # call.color
          /\ doc.runs[p][j].text # <<>>

\* C7: a paragraph whose text is empty after its matching runs were cleared
\* is removed from its parent, except the sole remaining paragraph of a
\* table cell, which stays in the cell with empty content.
C7_EmptiedParagraphRemoved ==
    RHReturned =>
        \A p \in DocPars(pre) :
            (HadColoredRun(pre, p, call.color) /\ ParText(doc, p) = <<>>) =>
                LET c == pre.parent[p] IN
                \/ /\ doc.parent[p] = None
                   /\ p \notin Range(doc.kids[c])
                   /\ doc.tag[c] = "tc" => Len(KidsTagged(doc, c, "p")) >= 1
                \/ /\ doc.tag[c] = "tc"
                   /\ doc.parent[p] = c
                   /\ KidsTagged(doc, c, "p") = <<p>>
                   /\ doc.runs[p] = <<>>

\* one emptied paragraph was removed from the body, one from a cell that
\* keeps another paragraph, and one stays as the only paragraph of its cell
C7_Witness ==
    /\ RHReturned
    /\ \E p, q, r \in DocPars(pre) :
          /\ HadColoredText(pre, p, call.color) /\ pre.parent[p] = 1 /\ doc.parent[p] = None
          /\ HadColoredText(pre, q, call.color) /\ pre.tag[pre.parent[q]] = "tc"
             /\ doc.parent[q] = None
          /\ HadColoredText(pre, r, call.color) /\ doc.parent[r] = pre.parent[r]
             /\ doc.tag[doc.parent[r]] = "tc" /\ doc.runs[r] = <<>>

\* C8: after any sequence of remove_highlighted calls every table cell
\* still in the document holds at least one paragraph, and the only
\* paragraph of a cell, all its runs emptied, is left as exactly one empty
\* paragraph in that cell.
C8_CellFloor ==
    /\ \A c \in Nodes(doc) :
          (doc.tag[c] = "tc" /\ InBody(doc, c)) => Len(KidsTagged(doc, c, "p")) >= 1
    /\ RHReturned =>
          \A c \in Nodes(pre) :
              (/\ pre.tag[c] = "tc"
               /\ InBody(pre, c)
               /\ Len(KidsTagged(pre, c, "p")) = 1
               /\ pre.runs[KidsTagged(pre, c, "p")[1]] # <<>>
               /\ \A i \in DOMAIN pre.runs[KidsTagged(pre, c, "p")[1]] :
                     pre.runs[KidsTagged(pre, c, "p")[1]][i].hl = call.color)
              => /\ KidsTagged(doc, c, "p") = KidsTagged(pre, c, "p")
                 /\ doc.runs[KidsTagged(pre, c, "p")[1]] = <<>>

\* on the second call, the only paragraph of a cell that stays in the
\* document had all its runs emptied
C8_Witness ==
    /\ RHReturned
    /\ ncalls = 2
    /\ \E c \in Nodes(doc) :
          /\ doc.tag[c] = "tc" /\ InBody(doc, c)
          /\ Len(KidsTagged(pre, c, "p")) = 1
          /\ HadColoredText(pre, KidsTagged(pre, c, "p")[1], call.color)
          /\ KidsTagged(doc, c, "p") = KidsTagged(pre, c, "p")
          /\ doc.runs[KidsTagged(doc, c, "p")[1]] = <<>>

\* C9 (as claimed): with clean_tables set, whenever the removal emptied
\* content of a paragraph in a cell and the text of all the cells of the
\* enclosing row is then empty, the row is deleted; a table left without
\* rows is deleted too; for every arrangement of paragraphs in the cells.
C9_EmptyRowDeleted ==
    (RHReturned /\ call.clean) =>
        /\ \A row \in Nodes(pre) :
              (/\ pre.tag[row] = "tr"
               /\ InBody(pre, row)
               /\ \E p \in Nodes(pre) :
                     /\ pre.tag[p] = "p"
                     /\ pre.tag[pre.parent[p]] = "tc"
                     /\ pre.parent[pre.parent[p]] = row
                     /\ HadColoredText(pre, p, call.color)
               /\ FullText(doc, row) = <<>>)
              => ~InBody(doc, row)
        /\ \A t \in Nodes(pre) :
              (/\ pre.tag[t] = "tbl"
               /\ InBody(pre, t)
               /\ KidsTagged(pre, t, "tr") # <<>>
               /\ KidsTagged(doc, t, "tr") = <<>>)
              => doc.parent[t] = None

\* C10 (as claimed): a table with exactly one row whose every cell becomes
\* empty by remove_highlighted with clean_tables=True is no longer a child
\* of its parent when the call returns.
C10_SingleRowTableRemoved ==
    (RHReturned /\ call.clean) =>
        \A t \in Nodes(pre) :
            (/\ pre.tag[t] = "tbl"
             /\ InBody(pre, t)
             /\ Len(KidsTagged(pre, t, "tr")) = 1
             /\ FullText(pre, KidsTagged(pre, t, "tr")[1]) # <<>>
             /\ \A c \in Range(KidsTagged(doc, KidsTagged(pre, t, "tr")[1], "tc")) :
                   FullText(doc, c) = <<>>)
            => t \notin Range(doc.kids[pre.parent[t]])

\* C11 (as claimed): remove_highlighted never raises because of an element
\* that was detached earlier in the same pass: a run or paragraph whose
\* paragraph, row or table is already removed is skipped, and the pass runs
\* to completion on every document.
C11_NeverRaises ==
    (pc = "idle" /\ call.fn = "remove_highlighted") => err = "none"

\* C12: find_replace called with a pattern that does not compile fails at
\* once: the error is raised before any paragraph is visited, it ends the
\* call (nothing inside find_replace catches it or tries again) and the
\* document is as it was.
C12_MalformedFailsFirst ==
    (call.fn = "find_replace" /\ ~Balanced(call.find)) =>
        /\ pc = "idle"
        /\ err = "re.error"
        /\ snap = <<>>
        /\ doc = pre

\* a call with the malformed pattern was made on a paragraph with text
C12_Witness ==
    /\ call.fn = "find_replace"
    /\ ~Balanced(call.find)
    /\ err = "re.error"
    /\ ParText(doc, 2) # <<>>

\* C13 (as claimed): when find_replace meets a paragraph that has no runs
\* but a non-empty text matching the pattern, it raises; it does not
\* return normally with the match left in the text.
C13_LinkOnlyFailsLoudly ==
    (/\ pc = "idle"
     /\ call.fn = "find_replace"
     /\ \E p \in Nodes(pre) : /\ pre.tag[p] = "p"
                               /\ pre.runs[p] = <<>>
                               /\ Balanced(call.find)
                               /\ search(call.find, ParText(pre, p)))
    => err # "none"

\* ------------------------------------------------------------------------
\* Sequences of editing calls on one open document
\* ------------------------------------------------------------------------

RECURSIVE FRLoop(_, _, _, _)
\* lines 116-159: the loop over the paragraphs the walk yields
FRLoop(d, ps, pat, repl) ==
    IF ps = <<>> THEN Ok(d)
    ELSE IF ~search(pat, ParText(d, Head(ps))) THEN FRLoop(d, Tail(ps), pat, repl)
    ELSE LET m == MergePass(d, Head(ps), pat)
         IN  IF m.err # "none" THEN m
             ELSE FRLoop(ReplacePass(m.doc, Head(ps), pat, repl), Tail(ps), pat, repl)

\* find_replace(document, find_text, replace_text, start, end), start to return
find_replace(d, pat, repl, start, end) ==
    IF compile(pat) # "none" THEN Raise(d, compile(pat))
    ELSE FRLoop(d, iter_all_paragraphs(d, start, end), pat, repl)

\* the paragraphs of the documents the call sequences start from
EditParChoices ==
    { <<>>,
      <<Run(<<"b">>, "NONE"), Run(<<"c", "X">>, "NONE")>>,
      <<Run(<<"X">>, "RED")>>,
      <<Run(<<"X", "b">>, "NONE"), Run(<<"c">>, "YELLOW")>> }

EditDocs ==
    { MkDoc(NestTag, NestKids,
            [n \in DOMAIN NestTag |-> IF NestTag[n] = "p" THEN c[n] ELSE <<>>],
            [n \in DOMAIN NestTag |-> "NONE"])
      : c \in [ParsOfTag(NestTag) -> EditParChoices] }

EditPatterns == { <<"b", "c">>, <<"X">>, <<"b", "(">> }

EditReplacements == { <<"X">>, <<>> }

\* find_replace(document, find_text, replace_text) as one step
FindReplace ==
    /\ pc = "idle"
    /\ err = "none"
    /\ ncalls < MaxCalls
    /\ \E f \in EditPatterns, r \in EditReplacements :
          LET res == find_replace(doc, f, r, None, None) IN
             /\ doc' = res.doc
             /\ err' = res.err
             /\ call' = [NoCall EXCEPT !.fn = "find_replace", !.find = f, !.repl = r,
                                       !.prev = [fn |-> call.fn, find |-> call.find,
                                                 repl |-> call.repl]]
    /\ pre' = doc
    /\ ncalls' = ncalls + 1
    /\ UNCHANGED <<disk, script, pc, yielded, snap, pi>>

InitEdit ==
    /\ doc \in EditDocs
    /\ pc = "idle"
    /\ err = "none"
    /\ call = NoCall
    /\ pre = doc
    /\ yielded = <<>>
    /\ snap = <<>>
    /\ pi = 0
    /\ ncalls = 0
    /\ disk = NoFiles
    /\ script = NoScript

NextEdit ==
    \/ FindReplace
    \/ RemoveHighlighted

SpecEdit == InitEdit /\ [][NextEdit]_vars

\* the paragraphs that are part of the document
LivePars(d) == {p \in Nodes(d) : d.tag[p] = "p" /\ InBody(d, p)}

\* no paragraph of the document has a match of the pattern in its text
NoMatch(d, pat) == \A p \in LivePars(d) : ~search(pat, ParText(d, p))

\* no run and no paragraph mark of the document carries the color
ColorAbsent(d, color) ==
    \A p \in LivePars(d) :
        /\ d.phl[p] # color
        /\ \A k \in DOMAIN d.runs[p] : d.runs[p][k].hl # color

\* C14: expected absence is a no-op.  find_replace with a pattern that
\* matches no paragraph's text, and remove_highlighted with a color that no
\* run and no paragraph mark carries, each return without error and leave
\* the whole element tree as it was; so a second identical find_replace,
\* made when the pattern no longer matches, changes nothing.
C14_AbsenceIsNoOp ==
    /\ (/\ call.fn = "find_replace"
        /\ Balanced(call.find)
        /\ NoMatch(pre, call.find)) => (err = "none" /\ doc = pre)
    /\ (/\ call.fn = "remove_highlighted"
        /\ ColorAbsent(pre, call.color)) => (err = "none" /\ doc = pre)

\* a second identical find_replace("bc", "X") has returned; the first had
\* replaced every match ("XX" comes from "bcX" or "Xbc" only)
C14_Witness ==
    /\ call.fn = "find_replace"
    /\ call.prev = [fn |-> "find_replace", find |-> call.find, repl |-> call.repl]
    /\ call.find = <<"b", "c">>
    /\ NoMatch(pre, call.find)
    /\ \E p \in LivePars(pre) : search(<<"X", "X">>, ParText(pre, p))
    /\ doc = pre

\* C15: find_replace(doc, "X", "X") applied twice: the text of every
\* paragraph after the second call is what it was after the first, which is
\* what it was before the first (every such call returns normally and
\* leaves every paragraph's text as it found it), whatever the run layout.
C15_SelfReplaceKeepsText ==
    (call.fn = "find_replace" /\ call.find = <<"X">> /\ call.repl = <<"X">>) =>
        /\ err = "none"
        /\ \A p \in Nodes(pre) : pre.tag[p] = "p" => ParText(doc, p) = ParText(pre, p)

\* the second of two find_replace(doc, "X", "X") calls has returned on a
\* document with "X" in several paragraphs
C15_Witness ==
    /\ call.fn = "find_replace"
    /\ call.find = <<"X">>
    /\ call.repl = <<"X">>
    /\ call.prev = [fn |-> "find_replace", find |-> <<"X">>, repl |-> <<"X">>]
    /\ ncalls = 2
    /\ Cardinality({p \in LivePars(doc) : search(<<"X">>, ParText(doc, p))}) > 1

\* ------------------------------------------------------------------------
\* The editing scripts: FindReplace.py, make_line_relay_templates.py,
\* make_line_relay_templates_2.py, make_line_relay_trip_checks.py and
\* make_line_relay_gui.py.  A file name is a sequence of its parts, the
\* extension last; all the files are in the directory of the input file.
\* The color tables are cut down to three colors and the standards to
\* those that do not call change_pri_421_to_411L.
\* ------------------------------------------------------------------------

ScriptNames == {"FindReplace", "make_line_relay_templates",
                "make_line_relay_templates_2", "make_line_relay_trip_checks",
                "make_line_relay_gui"}

\* the script whose tables and editing function the script uses
TablesOf(name) ==
    IF name = "make_line_relay_gui" THEN "make_line_relay_templates" ELSE name

\* std_filenames.keys(); FindReplace.py has one pass and no standard
Stds(name) ==
    CASE name = "FindReplace" -> {"none"}
      [] TablesOf(name) = "make_line_relay_templates" ->
            {"PP115-230E1A3A", "PP115-230E1B3A", "TEST"}
      [] name = "make_line_relay_templates_2" -> {"PP115-230E1A3A", "PP115-230E1B3A"}
      [] name = "make_line_relay_trip_checks" ->
            {"PP115-230E1A3A", "PP115-230E2A3A", "TEST"}

std_filenames(name, std) ==
    CASE TablesOf(name) = "make_line_relay_templates" ->
            (CASE std = "PP115-230E1A3A" ->
                     "Settings PP115-230E1A3A RFL9785-DCB 21P-02 11S-02 SEL-421-4"
               [] std = "PP115-230E1B3A" ->
                     "Settings PP115-230E1B3A RFL9785-DCB 21P-L1098 21S-L1098 SEL-421-4"
               [] std = "TEST" ->
                     "Settings Dual SEL-421 Line Relay master Standard (macro test)")
      [] name = "make_line_relay_templates_2" ->
            (CASE std = "PP115-230E1A3A" -> "DCB 1Bkr 21P-0X 11S-0X SEL-421-4"
               [] std = "PP115-230E1B3A" -> "DCB 2Bkr 21P-LZZ 21S-LZZ SEL-421-4")
      [] name = "make_line_relay_trip_checks" ->
            (CASE std = "PP115-230E1A3A" -> "DCB Single-Bkr Automated"
               [] std = "PP115-230E2A3A" -> "DCB Single-Bkr Non-Automated"
               [] std = "TEST" -> "Script Test")

\* all_colors, of the colors RED, YELLOW and GRAY_25
all_colors(name) ==
    IF name = "make_line_relay_trip_checks" THEN {"YELLOW", "GRAY_25"}
    ELSE IF name = "FindReplace" THEN {}
    ELSE {"RED", "YELLOW", "GRAY_25"}

\* colors_to_keep[std], of the same colors
colors_to_keep(name, std) ==
    CASE name = "FindReplace" -> {}
      [] name = "make_line_relay_trip_checks" ->
            (CASE std = "PP115-230E1A3A" -> {"YELLOW"}
               [] std = "PP115-230E2A3A" -> {"GRAY_25"}
               [] std = "TEST" -> {})
      [] OTHER ->
            (CASE std = "PP115-230E1A3A" -> {"GRAY_25", "YELLOW"}
               [] std = "PP115-230E1B3A" -> {"GRAY_25"}
               [] std = "TEST" -> {})

\* highlights_to_keep[std] of make_line_relay_trip_checks.py: BusDiff at most
highlights_to_keep(name, std) == {}

colors_to_remove(name, std) == all_colors(name) \ colors_to_keep(name, std)

\* the colors of the removed sections, taken for the ones to unmark
highlights_to_remove_swapped(name, std) ==
    IF name \in {"make_line_relay_templates_2", "make_line_relay_trip_checks"}
    THEN colors_to_remove(name, std) ELSE {}

\* the colors clear_highlighting is called with
highlights_to_remove(name, std) ==
    CASE name = "make_line_relay_templates_2" -> colors_to_keep(name, std)
      [] name = "make_line_relay_trip_checks" ->
            colors_to_keep(name, std) \ highlights_to_keep(name, std)
      [] OTHER -> {}

Test == <<"t", "e", "s", "t">>
Replaced == <<"r", "e", "p", "l", "a", "c", "e", "d">>
HMISupervisory == <<"HMI", "/", "supervisory">>
HMIAnnunciatorSupervisory == <<"HMI", "/", "annunciator", "/", "supervisory">>

\* the find_replace calls of the script, in order, as <<find, replace>>;
\* the words of the trip check phrases are taken as one symbol each
replace_list(name, std) ==
    CASE name = "FindReplace" -> << <<Test, Replaced>> >>
      [] name = "make_line_relay_trip_checks" ->
            (IF "YELLOW" \in colors_to_keep(name, std)
                /\ "GRAY_25" \notin colors_to_keep(name, std)
             THEN << <<HMIAnnunciatorSupervisory, HMISupervisory>> >>
             ELSE IF "GRAY_25" \in colors_to_keep(name, std)
                     /\ "YELLOW" \notin colors_to_keep(name, std)
             THEN << <<HMISupervisory, <<"supervisory">> >>,
                     <<HMIAnnunciatorSupervisory, <<"annunciator", "/", "supervisory">> >> >>
             ELSE <<>>)
      [] OTHER -> <<>>

\* clean_logic_tables as the script passes it
clean_logic_tables(name) == name # "make_line_relay_trip_checks"

DocExts == {".docx", ".docm"}
RevParts == {" Rev 1"}

\* re.match('(.*)\.doc[xm]$', documentParam) is not None
HasDocExt(path) == path # <<>> /\ path[Len(path)] \in DocExts

\* doc_base: the name without its extension
doc_base(path) == SubSeq(path, 1, Len(path) - 1)

\* re.search(' Rev ?[0-9]+$', doc_base) is not None, and its group(0)
HasRev(base) == base # <<>> /\ base[Len(base)] \in RevParts
file_rev(base) == IF HasRev(base) THEN <<base[Len(base)]>> ELSE <<>>

\* save_file of the scripts that name their output themselves
save_file(name, path, std) ==
    CASE name = "FindReplace" -> doc_base(path) \o <<" (modified)", ".docx">>
      [] name = "make_line_relay_trip_checks" ->
            <<std, " ", std_filenames(name, std)>> \o file_rev(doc_base(path)) \o <<".docx">>
      [] OTHER -> <<std_filenames(name, std)>> \o file_rev(doc_base(path)) \o <<".docx">>

\* the file holds the document from now on
Write(dk, f, d) == [g \in (DOMAIN dk) \cup {f} |-> IF g = f THEN d ELSE dk[g]]

\* a copyfile without the test for source and destination being one file
copyfile_unchecked(dk, src, dst) ==
    IF src \notin DOMAIN dk THEN [disk |-> dk, err |-> "IOError"]
    ELSE [disk |-> Write(dk, dst, dk[src]), err |-> "none"]

\* shutil.copyfile(src, dst)
copyfile(dk, src, dst) ==
    IF src = dst THEN [disk |-> dk, err |-> "shutil.Error"]
    ELSE IF src \notin DOMAIN dk THEN [disk |-> dk, err |-> "IOError"]
    ELSE [disk |-> Write(dk, dst, dk[src]), err |-> "none"]

\* clear_highlighting that removes the highlighted content with its mark
clear_highlighting_removing(d, color) == remove_highlighted(d, color, FALSE)

\* clear_highlighting(document, color): the highlight attribute leaves the
\* runs that carry the color and the marks of the empty paragraphs that
\* carry it; text and tree stay
clear_highlighting(d, color) ==
    Ok([d EXCEPT
          !.runs = [p \in DOMAIN d.runs |->
                      [k \in DOMAIN d.runs[p] |->
                          IF d.tag[p] = "p" /\ InBody(d, p) /\ d.runs[p][k].hl = color
                          THEN [d.runs[p][k] EXCEPT !.hl = "NONE"]
                          ELSE d.runs[p][k]]],
          !.phl = [p \in DOMAIN d.phl |->
                      IF /\ d.tag[p] = "p"
                         /\ InBody(d, p)
                         /\ d.phl[p] = color
                         /\ Len(ParText(d, p)) = 0
                      THEN "NONE" ELSE d.phl[p]]])

\* a document of the shape, its paragraphs as given and plain otherwise
DocWith(sh, c) ==
    MkDoc(sh[1], sh[2],
          [n \in DOMAIN sh[1] |-> IF n \in DOMAIN c THEN c[n].runs
                                  ELSE IF sh[1][n] = "p" THEN <<Run(<<"z">>, "NONE")>>
                                  ELSE <<>>],
          [n \in DOMAIN sh[1] |-> IF n \in DOMAIN c THEN c[n].phl ELSE "NONE"])

Par(rs) == [runs |-> rs, phl |-> "NONE"]

\* the master documents the scripts are run on
ScriptDocs ==
    { PlainDoc(<<TwoRowTag, TwoRowKids>>),
      DocWith(<<TwoRowTag, TwoRowKids>>,
              [n \in {5, 6, 8} |->
                 CASE n = 5 -> Par(<<Run(<<"x">>, "RED"), Run(<<"y">>, "YELLOW")>>)
                   [] n = 6 -> Par(<<Run(<<"1", ":">>, "NONE"), Run(<<"x">>, "RED")>>)
                   [] n = 8 -> [runs |-> <<>>, phl |-> "YELLOW"]]),
      DocWith(<<TwoRowTag, TwoRowKids>>,
              [n \in {5, 11} |->
                 CASE n = 5 -> Par(<<Run(<<"y">>, "YELLOW")>>)
                   [] n = 11 -> Par(<<Run(<<"x">>, "RED"), Run(<<>>, "RED")>>)]),
      DocWith(<<TwoRowTag, TwoRowKids>>,
              [n \in {5, 11} |->
                 CASE n = 5 -> Par(<<Run(<<"x">>, "RED")>>)
                   [] n = 11 -> Par(<<Run(<<"y">>, "YELLOW"), Run(<<>>, "YELLOW")>>)]),
      DocWith(<<TwoRowTag, TwoRowKids>>,
              [n \in {5, 6, 8} |->
                 CASE n = 5 -> Par(<<>>)
                   [] n = 6 -> Par(<<Run(<<"y">>, "YELLOW")>>)
                   [] n = 8 -> Par(<<Run(<<"x">>, "RED")>>)]),
      DocWith(<<FlatTag, FlatKids>>,
              [n \in {2, 3, 4} |->
                 CASE n = 2 -> Par(<<Run(<<"t", "e">>, "NONE"), Run(<<"s", "t">>, "YELLOW")>>)
                   [] n = 3 -> Par(<<Run(HMISupervisory, "NONE")>>)
                   [] n = 4 -> Par(<<Run(HMIAnnunciatorSupervisory, "YELLOW")>>)]),
      DocWith(<<FlatTag, FlatKids>>,
              [n \in {2} |->
                 Par(<<Run(<<"t", "e">>, "NONE"), Run(<<"s", "t", "t", "e">>, "NONE"),
                       Run(<<"s", "t">>, "NONE")>>)]) }

\* no document is open
NoDocument == MkDoc(<<"body">>, << <<>> >>, << <<>> >>, <<"NONE">>)

\* the names the input file can have: plain, with a revision, with an
\* extension the scripts do not take, and the names of the script's outputs
InputNames(name) ==
    { <<"Master", ".docx">>, <<"Master", " Rev 1", ".docm">>, <<"Master", ".doc">> }
    \cup (IF name \in {"FindReplace", "make_line_relay_gui"} THEN {}
          ELSE { save_file(name, path, std) :
                    path \in { <<"Master", ".docx">>, <<"Master", " Rev 1", ".docx">> },
                    std \in Stds(name) })

\* what the user answers in the save dialog of the GUI: nothing (cancel),
\* a new name, or the name of the input file
SaveChoices(path) == { <<>>, <<"Output", ".docx">>, path }

\* where the script goes after an editing call: on, or to its handler
AfterEditAlways(e) == "editing"

AfterEdit(e) == IF e = "none" THEN "editing" ELSE "done"

\* lines up to doc_base (and, in the GUI, file_rev): the input name is
\* taken apart; a name that does not match raises AttributeError on .group
ParseArgs ==
    /\ pc = "start"
    /\ LET ok == /\ HasDocExt(script.documentParam)
                 /\ (script.name = "make_line_relay_gui"
                        => HasRev(doc_base(script.documentParam)))
       IN  /\ err' = IF ok THEN "none" ELSE "AttributeError"
           /\ pc' = IF ok THEN "loop" ELSE "done"
           /\ \E chosen \in Stds(script.name) :
                 script' = [script EXCEPT !.todo =
                               IF ~ok THEN {}
                               ELSE IF script.name = "make_line_relay_gui" THEN {chosen}
                               ELSE Stds(script.name)]
    /\ UNCHANGED <<doc, call, pre, yielded, snap, pi, ncalls, disk>>

\* the top of the loop over the standards: save_file, shutil.copyfile
CopyTemplate ==
    /\ pc = "loop"
    /\ script.todo # {}
    /\ \E std \in script.todo :
       \E target \in IF script.name = "make_line_relay_gui"
                     THEN SaveChoices(script.documentParam)
                     ELSE {save_file(script.name, script.documentParam, std)} :
          LET res == copyfile(disk, script.documentParam, target) IN
          IF target = <<>>
          THEN /\ pc' = "done"
               /\ script' = [script EXCEPT !.todo = {}, !.std = std, !.save_file = target]
               /\ UNCHANGED <<disk, err>>
          ELSE /\ disk' = res.disk
               /\ err' = res.err
               /\ pc' = IF res.err = "none" THEN "copied" ELSE "done"
               /\ script' = [script EXCEPT !.todo = @ \ {std}, !.std = std,
                                           !.save_file = target]
    /\ call' = NoCall
    /\ UNCHANGED <<doc, pre, yielded, snap, pi, ncalls>>

\* document = Document(save_file), and the lists the editing function of
\* the script works through
OpenCopy ==
    /\ pc = "copied"
    /\ doc' = disk[script.save_file]
    /\ pre' = disk[script.save_file]
    /\ script' = [script EXCEPT
                     !.remove = colors_to_remove(TablesOf(script.name), script.std),
                     !.clear = highlights_to_remove(script.name, script.std),
                     !.replace = replace_list(script.name, script.std)]
    /\ pc' = "editing"
    /\ UNCHANGED <<err, call, yielded, snap, pi, ncalls, disk>>

\* for color in colors_to_remove: remove_highlighted(document, color, ...)
EditRemove ==
    /\ pc = "editing"
    /\ \E color \in script.remove :
          LET res == remove_highlighted(doc, color, clean_logic_tables(TablesOf(script.name)))
          IN  /\ doc' = res.doc
              /\ err' = res.err
              /\ pc' = AfterEdit(res.err)
              /\ call' = [NoCall EXCEPT !.fn = "remove_highlighted", !.color = color,
                             !.clean = clean_logic_tables(TablesOf(script.name))]
              /\ script' = [script EXCEPT !.remove = @ \ {color}]
    /\ pre' = doc
    /\ UNCHANGED <<yielded, snap, pi, ncalls, disk>>

\* for color in highlights_to_remove: clear_highlighting(document, color)
EditClear ==
    /\ pc = "editing"
    /\ script.remove = {}
    /\ \E color \in script.clear :
          LET res == clear_highlighting(doc, color)
          IN  /\ doc' = res.doc
              /\ err' = res.err
              /\ pc' = AfterEdit(res.err)
              /\ call' = [NoCall EXCEPT !.fn = "clear_highlighting", !.color = color]
              /\ script' = [script EXCEPT !.clear = @ \ {color}]
    /\ pre' = doc
    /\ UNCHANGED <<yielded, snap, pi, ncalls, disk>>

\* the find_replace calls of the script, one after the other
EditReplace ==
    /\ pc = "editing"
    /\ script.remove = {}
    /\ script.clear = {}
    /\ script.replace # <<>>
    /\ LET fr == Head(script.replace)
           res == find_replace(doc, fr[1], fr[2], None, None)
       IN  /\ doc' = res.doc
           /\ err' = res.err
           /\ pc' = AfterEdit(res.err)
           /\ call' = [NoCall EXCEPT !.fn = "find_replace", !.find = fr[1], !.repl = fr[2]]
           /\ script' = [script EXCEPT !.replace = Tail(@)]
    /\ pre' = doc
    /\ UNCHANGED <<yielded, snap, pi, ncalls, disk>>

\* document.save(save_file), then the next standard
SaveCopy ==
    /\ pc = "editing"
    /\ script.remove = {}
    /\ script.clear = {}
    /\ script.replace = <<>>
    /\ disk' = Write(disk, script.save_file, doc)
    /\ pc' = "loop"
    /\ UNCHANGED <<doc, err, call, pre, yielded, snap, pi, ncalls, script>>

\* the loop is through
Finish ==
    /\ pc = "loop"
    /\ script.todo = {}
    /\ pc' = "done"
    /\ UNCHANGED <<doc, err, call, pre, yielded, snap, pi, ncalls, disk, script>>

InitScript ==
    /\ \E name \in ScriptNames :
       \E path \in InputNames(name), d \in ScriptDocs, there \in BOOLEAN :
          /\ disk = (IF there THEN Write(NoFiles, path, d) ELSE NoFiles)
          /\ script = [NoScript EXCEPT !.name = name, !.documentParam = path,
                                       !.master = IF there THEN Write(NoFiles, path, d)
                                                  ELSE NoFiles]
    /\ doc = NoDocument
    /\ pc = "start"
    /\ err = "none"
    /\ call = NoCall
    /\ pre = NoDocument
    /\ yielded = <<>>
    /\ snap = <<>>
    /\ pi = 0
    /\ ncalls = 0

NextScript ==
    \/ ParseArgs
    \/ CopyTemplate
    \/ OpenCopy
    \/ EditRemove
    \/ EditClear
    \/ EditReplace
    \/ SaveCopy
    \/ Finish

SpecScript == InitScript /\ [][NextScript]_vars

InputAsBefore ==
    IF script.documentParam \in DOMAIN script.master
    THEN /\ script.documentParam \in DOMAIN disk
         /\ disk[script.documentParam] = script.master[script.documentParam]
    ELSE script.documentParam \notin DOMAIN disk

\* C17: no script writes to the path of its input document: it copies the
\* input to a save path, opens the copy and saves to that save path only, so
\* the input file is after the run what it was before, whatever the input
\* file is called and whichever standard is chosen.
C17_InputNeverWritten ==
    /\ InputAsBefore
    /\ \A f \in DOMAIN disk :
          f # script.documentParam =>
             \/ \E std \in Stds(script.name) :
                   f = save_file(script.name, script.documentParam, std)
             \/ script.name = "make_line_relay_gui" /\ f = script.save_file

\* the input file has the name of one of the script's outputs: the script
\* wrote an edited output for another standard and stopped at the copy onto
\* the input
C17_Witness ==
    /\ pc = "done"
    /\ err = "shutil.Error"
    /\ InputAsBefore
    /\ \E f \in DOMAIN disk : disk[f] # script.master[script.documentParam]

\* an editing call of the script has raised
EditFailed ==
    /\ call.fn \in {"remove_highlighted", "clear_highlighting", "find_replace"}
    /\ err # "none"

\* C18: when an editing operation fails part-way, the script does not save
\* the partially edited document: it is at its end, the save file still
\* holds the copy of the input, and the input file is as it was.
C18_NoSaveAfterFailure ==
    EditFailed =>
        /\ pc = "done"
        /\ disk[script.save_file] = script.master[script.documentParam]
        /\ InputAsBefore

\* the failed call had changed the document in memory before it raised
C18_Witness ==
    /\ EditFailed
    /\ pc = "done"
    /\ doc # disk[script.save_file]
    /\ doc # pre

\* ------------------------------------------------------------------------
\* SplitByHighlighting.py
\* ------------------------------------------------------------------------

\* the paragraphs SplitByHighlighting's iter_all_runs goes through:
\* document.paragraphs, then for every table of document.tables the
\* paragraphs of the cells of its rows
split_paragraphs(d) ==
    LET tbls == KidsTagged(d, 1, "tbl")
        cellPars(tc) == KidsTagged(d, tc, "p")
        rowPars(tr) == LET cs == KidsTagged(d, tr, "tc")
                       IN  Concat([i \in DOMAIN cs |-> cellPars(cs[i])])
        tblPars(t) == LET rs == KidsTagged(d, t, "tr")
                      IN  Concat([i \in DOMAIN rs |-> rowPars(rs[i])])
    IN  KidsTagged(d, 1, "p") \o Concat([i \in DOMAIN tbls |-> tblPars(tbls[i])])

\* all_colors: the keys of run_dict, the highlights of the runs visited
split_all_colors(d) ==
    UNION { {d.runs[p][k].hl : k \in DOMAIN d.runs[p]} : p \in Range(split_paragraphs(d)) }
        \ {"NONE"}

\* SplitByHighlighting's delete_paragraph: p.getparent().remove(p)
split_delete_paragraph(d, p) ==
    IF d.parent[p] = None THEN Raise(d, "AttributeError") ELSE Ok(Detach(d, p))

RECURSIVE SplitRunLoop(_, _, _, _)
\* lines 150-156 for the runs of one paragraph, from run j on: the list of
\* runs is the one p.runs gave when the paragraph was reached
SplitRunLoop(d, p, j, color) ==
    IF j > Len(d.runs[p]) THEN Ok(d)
    ELSE IF d.runs[p][j].hl # color THEN SplitRunLoop(d, p, j + 1, color)
    ELSE LET d1 == [d EXCEPT !.runs[p][j].text = <<>>]
             r2 == IF Len(ParText(d1, p)) = 0 THEN split_delete_paragraph(d1, p) ELSE Ok(d1)
         IN  IF r2.err # "none" THEN r2 ELSE SplitRunLoop(r2.doc, p, j + 1, color)

RECURSIVE SplitParLoop(_, _, _)
\* lines 149-156: one pass of iter_all_runs(new_document) for one color
SplitParLoop(d, ps, color) ==
    IF ps = <<>> THEN Ok(d)
    ELSE LET r == SplitRunLoop(d, Head(ps), 1, color)
         IN  IF r.err # "none" THEN r ELSE SplitParLoop(r.doc, Tail(ps), color)

split_remove(d, color) == SplitParLoop(d, split_paragraphs(d), color)

\* save_file = doc_base + ' (' + str(keep_color).split()[0] + ').docx'
split_save_file(path, keep_color) == doc_base(path) \o <<" (", keep_color, ")", ".docx">>

\* what a paragraph of a document to split holds
SplitParChoices ==
    { <<Run(<<"z">>, "NONE")>>,
      <<Run(<<"x">>, "RED")>>,
      <<Run(<<"z">>, "NONE"), Run(<<"y">>, "YELLOW")>>,
      <<Run(<<"x">>, "RED"), Run(<<>>, "RED")>> }

SplitDocs ==
    { MkDoc(NestTag, NestKids,
            [n \in DOMAIN NestTag |-> IF NestTag[n] = "p" THEN c[n] ELSE <<>>],
            [n \in DOMAIN NestTag |-> "NONE"])
      : c \in [ParsOfTag(NestTag) -> SplitParChoices] }

\* lines 115-143: the input name, Document(documentParam), run_dict
SplitStart ==
    /\ pc = "start"
    /\ LET ok == HasDocExt(script.documentParam) IN
          /\ err' = IF ok THEN "none" ELSE "AttributeError"
          /\ pc' = IF ok THEN "loop" ELSE "done"
          /\ doc' = IF ok THEN disk[script.documentParam] ELSE doc
          /\ script' = [script EXCEPT !.todo =
                           IF ok THEN split_all_colors(disk[script.documentParam]) ELSE {}]
    /\ UNCHANGED <<call, pre, yielded, snap, pi, ncalls, disk>>

\* lines 144-147: the next keep_color, the copy, new_document
SplitCopy ==
    /\ pc = "loop"
    /\ \E keep_color \in script.todo :
          LET target == split_save_file(script.documentParam, keep_color)
              res == copyfile(disk, script.documentParam, target)
          IN  /\ disk' = res.disk
              /\ err' = res.err
              /\ pc' = IF res.err = "none" THEN "editing" ELSE "done"
              /\ doc' = IF res.err = "none" THEN res.disk[target] ELSE doc
              /\ script' = [script EXCEPT
                               !.todo = @ \ {keep_color},
                               !.std = keep_color,
                               !.save_file = target,
                               !.remove = split_all_colors(disk[script.documentParam])
                                             \ {keep_color}]
    /\ call' = NoCall
    /\ pre' = doc'
    /\ UNCHANGED <<yielded, snap, pi, ncalls>>

\* lines 148-156: the pass for one remove_color
SplitRemove ==
    /\ pc = "editing"
    /\ \E remove_color \in script.remove :
          LET res == split_remove(doc, remove_color)
          IN  /\ doc' = res.doc
              /\ err' = res.err
              /\ pc' = AfterEdit(res.err)
              /\ call' = [NoCall EXCEPT !.fn = "split_remove", !.color = remove_color]
              /\ script' = [script EXCEPT !.remove = @ \ {remove_color}]
    /\ pre' = doc
    /\ UNCHANGED <<yielded, snap, pi, ncalls, disk>>

\* line 158: new_document.save(save_file)
SplitSave ==
    /\ pc = "editing"
    /\ script.remove = {}
    /\ disk' = Write(disk, script.save_file, doc)
    /\ pc' = "loop"
    /\ UNCHANGED <<doc, err, call, pre, yielded, snap, pi, ncalls, script>>

InitSplit ==
    /\ \E path \in { <<"Master", ".docx">>, <<"Master", ".doc">> }, d \in SplitDocs :
          /\ disk = Write(NoFiles, path, d)
          /\ script = [NoScript EXCEPT !.name = "SplitByHighlighting",
                                       !.documentParam = path,
                                       !.master = Write(NoFiles, path, d)]
    /\ doc = NoDocument
    /\ pc = "start"
    /\ err = "none"
    /\ call = NoCall
    /\ pre = NoDocument
    /\ yielded = <<>>
    /\ snap = <<>>
    /\ pi = 0
    /\ ncalls = 0

NextSplit ==
    \/ SplitStart
    \/ SplitCopy
    \/ SplitRemove
    \/ SplitSave
    \/ Finish

SpecSplit == InitSplit /\ [][NextSplit]_vars

\* the colors that runs of the document carry
ColorsUsed(d) ==
    UNION { {d.runs[p][k].hl : k \in DOMAIN d.runs[p]} : p \in LivePars(d) } \ {"NONE"}

\* the texts of the runs of the color, in document order
TextOfColor(d, color) ==
    LET ps == FindAllP(d)
        ofPar(p) == LET rs == SelectSeq(d.runs[p], LAMBDA r : r.hl = color)
                    IN  Concat([k \in DOMAIN rs |-> rs[k].text])
    IN  Concat([i \in DOMAIN ps |-> ofPar(ps[i])])

\* C19 (as claimed): when SplitByHighlighting is through, it has completed
\* and, for every highlight color used in the input document, saved an
\* output that holds all the unhighlighted text and all the text of that
\* color and no text of any other color; paragraphs in the body, in tables
\* and in tables nested in cells alike.
C19_OneColorPerOutput ==
    (pc = "done" /\ HasDocExt(script.documentParam)) =>
        LET master == script.master[script.documentParam] IN
        /\ err = "none"
        /\ \A color \in ColorsUsed(master) :
              LET f == split_save_file(script.documentParam, color) IN
              /\ f \in DOMAIN disk
              /\ TextOfColor(disk[f], "NONE") = TextOfColor(master, "NONE")
              /\ TextOfColor(disk[f], color) = TextOfColor(master, color)
              /\ \A other \in ColorsUsed(master) \ {color} :
                    TextOfColor(disk[f], other) = <<>>

\* ------------------------------------------------------------------------
\* Word2SettingDBs.py: the settings read from the paragraphs of the document
\*
\* Here the document is document.paragraphs: a sequence of paragraphs
\* [style, runs], a run being [text, bold, strike] with the tri-state font
\* attributes of python-docx ("True", "False", "None" for inherited).
\* A text is a sequence of symbols: "=", " ", or a word without either.
\* script.grp is the variable grp of the script (Unbound until a heading
\* assigns it), script.settings the dict settings: group -> list of
\* <<name, value>>.
\* ------------------------------------------------------------------------

\* a setting_run that looks at bold alone
setting_run_bold_only(r) == r.bold = "True"

\* r.font.bold and not r.font.strike
setting_run(r) == r.bold = "True" /\ r.strike # "True"

RECURSIVE rstrip(_)
rstrip(t) == IF t # <<>> /\ t[Len(t)] = " " THEN rstrip(SubSeq(t, 1, Len(t) - 1)) ELSE t

\* str.strip()
strip(t) == rstrip(StripSpaces(t))

\* p.text
SettingParText(p) == Concat([k \in DOMAIN p.runs |-> p.runs[k].text])

\* ''.join([r.text for r in filter(setting_run, p.runs)]).strip()
setting_text(p) ==
    LET rs == SelectSeq(p.runs, setting_run)
    IN  strip(Concat([k \in DOMAIN rs |-> rs[k].text]))

RECURSIVE NotEqPrefix(_)
\* the length of the longest prefix of t that [^=]+ can take
NotEqPrefix(t) == IF t = <<>> \/ Head(t) = "=" THEN 0 ELSE 1 + NotEqPrefix(Tail(t))

\* reSetting.match(t) for reSetting = '([^=]+)\s*=\s*(.*)': group 1 takes
\* every character before the first '=' (at least one; it is greedy and the
\* next character must be '='), \s* takes the white space after the '=' and
\* group 2 the rest. The result is <<sm.group(1), sm.group(2)>>, or <<>> for
\* no match.
reSetting_match(t) ==
    LET n == NotEqPrefix(t)
    IN  IF n = 0 \/ n = Len(t) THEN <<>>
        ELSE << SubSeq(t, 1, n), StripSpaces(SubSeq(t, n + 2, Len(t))) >>

UpperOf == [Global |-> "GLOBAL", Port |-> "PORT", Connect |-> "CONNECT", connect |-> "CONNECT"]

\* flags=re.I
Upper(c) == IF c \in DOMAIN UpperOf THEN UpperOf[c] ELSE c

\* reGroup.match(text) for a pattern given as the sequence of the sets of
\* symbols it accepts position by position
re_match(re, text) ==
    /\ Len(re) <= Len(text)
    /\ \A i \in DOMAIN re : Upper(text[i]) \in re[i]

Literal(groupText) ==
    [groupText |-> groupText, callable |-> FALSE,
     re |-> [i \in DOMAIN groupText |-> {groupText[i]}]]

reGroups ==
    << Literal(<<"ALIAS">>),
       Literal(<<"GLOBAL">>),
       Literal(<<"PORT", " ", "87">>),
       Literal(<<"CHANNEL", " ", "X">>),
       Literal(<<"CHANNEL", " ", "Y">>),
       Literal(<<"BREAKER", " ", "MONITOR">>),
       Literal(<<"ZONE", " ", "1">>),
       Literal(<<"GROUP", " ", "1">>),
       [Literal(<<"LOGIC">>) EXCEPT !.groupText = <<"GROUP", " ", "1", " ", "LOGIC">>],
       Literal(<<"PROTECTION", " ", "LOGIC">>),
       [Literal(<<"AUTOMATION">>) EXCEPT !.groupText = <<"AUTOMATION", " ", "LOGIC">>],
       Literal(<<"OUTPUT">>),
       Literal(<<"FRONT", " ", "PANEL">>),
       Literal(<<"REPORT">>),
       Literal(<<"TEXT">>),
       [groupText |-> <<>>, callable |-> TRUE,
        re |-> << {"PORT"}, {" "}, {"F", ",", "1", "2", "3", "4", "5"} >>] >>

\* "PORT " + group(1) of the match of "PORT ([F,1-5]).*"
portX(t) == <<"PORT", " ", t[3]>>

\* groupText(p.text) if callable(groupText) else groupText
group_text(g, text) == IF g.callable THEN portX(text) ELSE g.groupText

Unbound == <<>>

\* the branch for style 'Heading 1': the first pattern of reGroups that
\* matches names the group; grp is left alone when none does
heading1(grp, text) ==
    LET hits == { i \in DOMAIN reGroups : re_match(reGroups[i].re, text) }
    IN  IF hits = {} THEN grp
        ELSE group_text(reGroups[CHOOSE i \in hits : \A j \in hits : i <= j], text)

\* the branch for style 'Heading 2': only the last pattern of reGroups
heading2(grp, text) ==
    LET g == reGroups[Len(reGroups)]
    IN  IF re_match(g.re, text) THEN group_text(g, text) ELSE grp

\* settings[grp].append(...), with settings[grp] = [] first for a new group
append_setting(settings, grp, s) ==
    IF grp \in DOMAIN settings
    THEN [settings EXCEPT ![grp] = Append(@, s)]
    ELSE [g \in DOMAIN settings \cup {grp} |->
             IF g = grp THEN <<s>> ELSE settings[g]]

SettingStyles == {"SettingLine", "SettingLineStandard"}

\* one pass of the body of "for p in document.paragraphs": the three ifs on
\* p.style.name in turn. The result is [grp, settings, err]; err is
\* NameError when grp is read before any heading has assigned it.
extract_paragraph(grp, settings, p) ==
    LET text == SettingParText(p)
        g1 == IF p.style = "Heading 1" THEN heading1(grp, text) ELSE grp
        g2 == IF p.style = "Heading 2" THEN heading2(g1, text) ELSE g1
        sm == reSetting_match(setting_text(p))
    IN  IF p.style \in SettingStyles /\ sm # <<>>
        THEN IF g2 = Unbound
             THEN [grp |-> g2, settings |-> settings, err |-> "NameError"]
             ELSE [grp |-> g2,
                   settings |-> append_setting(settings, g2,
                                               <<strip(sm[1]), strip(sm[2])>>),
                   err |-> "none"]
        ELSE [grp |-> g2, settings |-> settings, err |-> "none"]

Fmt(text, bold, strike) == [text |-> text, bold |-> bold, strike |-> strike]

SettingPar(style, runs) == [style |-> style, runs |-> runs]

Plain(text) == Fmt(text, "None", "None")

Bold(text) == Fmt(text, "True", "None")

\* the formats a run of a setting line is drawn with: bold, bold and struck
\* through, bold by inheritance only, bold with strike switched off
RunFormats ==
    { <<"True", "None">>, <<"True", "True">>, <<"None", "None">>, <<"True", "False">> }

HeadingChoices ==
    { SettingPar("Heading 1", << Plain(<<"GLOBAL">>) >>),
      SettingPar("Heading 1", << Plain(<<"Global", " ">>), Bold(<<"Settings">>) >>),
      SettingPar("Heading 1", << Plain(<<"GROUP", " ", "1", " ", "LOGIC">>) >>),
      SettingPar("Heading 1", << Plain(<<"PORT", " ", "F">>) >>),
      SettingPar("Heading 1", << Plain(<<"Introduction">>) >>),
      SettingPar("Heading 2", << Plain(<<"PORT", " ", "1">>) >>),
      SettingPar("Heading 2", << Plain(<<"GLOBAL">>) >>) }

SettingLineChoices ==
    { SettingPar("SettingLine",
                 << Plain(<<"Settings:", " ">>), Bold(<<"51P">>), Plain(<<" ">>),
                    Bold(<<"=", " ", "5.0">>), Plain(<<" ", "OFF">>) >>),
      SettingPar("SettingLineStandard",
                 << Bold(<<" ", "PB1", " ", "-", " ", "PB8", " ", "=">>),
                    Bold(<<"OFF", " ">>) >>),
      SettingPar("Normal", << Bold(<<"51P", "=", "5.0">>) >>),
      SettingPar("SettingLine", <<>>) }
    \cup
    { SettingPar("SettingLine",
                 << Fmt(<<"51P", " ">>, f[1][1], f[1][2]),
                    Fmt(<<"=", " ", "5.0">>, f[2][1], f[2][2]),
                    Fmt(<<" ", "=", "OFF">>, f[3][1], f[3][2]) >>) :
        f \in RunFormats \X RunFormats \X RunFormats }

\* ------------------------------------------------------------------------
\* Word2SettingDBs.py: ranged settings (PB1 - PB8 = OFF)
\* ------------------------------------------------------------------------

DigitSeq == <<"0", "1", "2", "3", "4", "5", "6", "7", "8", "9">>

UpperLetters == {"A", "B", "C", "P"}

\* [0-9A-Z_]
NameClass == Digits \cup UpperLetters \cup {"_"}

\* [0A-Z]
ZeroOrLetter == UpperLetters \cup {"0"}

AllIn(t, S) == \A i \in DOMAIN t : t[i] \in S

\* [1-9][0-9]* takes the whole of t
IsNumber(t) == t # <<>> /\ t[1] \in Digits \ {"0"} /\ AllIn(t, Digits)

RECURSIVE ToInt(_)
\* int(t) for a string of digits
ToInt(t) ==
    IF t = <<>> THEN 0
    ELSE 10 * ToInt(SubSeq(t, 1, Len(t) - 1)) + (IndexOf(DigitSeq, t[Len(t)]) - 1)

RECURSIVE ToDigits(_)
\* '%d' % n for n >= 0
ToDigits(n) ==
    IF n < 10 THEN <<DigitSeq[n + 1]>>
    ELSE ToDigits(n \div 10) \o <<DigitSeq[(n % 10) + 1]>>

\* how many spaces t has from position i on
SpacesAt(t, i) ==
    LET ends == {0} \cup { n \in 1..(Len(t) - i + 1) : AllIn(SubSeq(t, i, i + n - 1), {" "}) }
    IN  CHOOSE n \in ends : \A m \in ends : m <= n

\* \s*[-\u2013]: the position of the dash behind the first i characters
DashAt(t, i) == i + SpacesAt(t, i + 1) + 1

\* \s* behind the dash: how many characters stand before the second name
PastDash(t, dash) == dash + SpacesAt(t, dash + 1)

\* the parts of reRanged behind group 2, the dash at position dash and the
\* second name behind the first "second" characters
TailAt(t, g1, c, e, f, dash, second) ==
    /\ second + g1 + f + e <= Len(t)
    /\ AllIn(SubSeq(t, g1 + c + 1, g1 + c + e), NameClass)
    /\ t[dash] = "-"
    /\ SubSeq(t, second + 1, second + g1) = SubSeq(t, 1, g1)
    /\ IsNumber(SubSeq(t, second + g1 + 1, second + g1 + f))
    /\ SubSeq(t, second + g1 + f + 1, second + g1 + f + e)
          = SubSeq(t, g1 + c + 1, g1 + c + e)

TailFrom(t, g1, c, e, f, dash) == TailAt(t, g1, c, e, f, dash, PastDash(t, dash))

\* the rest of reRanged after group 2: group 3 of length e, \s*, the dash,
\* \s*, \1, group 4 of length f and \3. g1 and c are the lengths of
\* groups 1 and 2. The white space is taken whole: a dash follows the
\* first, a character of the name the second.
RangedTail(t, g1, c, e, f) == TailFrom(t, g1, c, e, f, DashAt(t, g1 + c + e))

\* the ways reRanged can match at the start of t: <<a, b, c, e, f>> are the
\* lengths taken by [0-9A-Z_]*, [0A-Z]+, group 2, group 3 and group 4
RangedFits(t) ==
    LET N == Len(t)
        As == { a \in 0..N : AllIn(SubSeq(t, 1, a), NameClass) }
        Bs(a) == { b \in 1..(N - a) : AllIn(SubSeq(t, a + 1, a + b), ZeroOrLetter) }
        Cs(g) == { c \in 1..(N - g) : IsNumber(SubSeq(t, g + 1, g + c)) }
        Es(g) == { e \in 0..(N - g) : AllIn(SubSeq(t, g + 1, g + e), NameClass) }
        Fs(g, c, e) == { f \in 1..N : RangedTail(t, g, c, e, f) }
        from_e(a, b, c, e) == { <<a, b, c, e, f>> : f \in Fs(a + b, c, e) }
        from_c(a, b, c) == UNION { from_e(a, b, c, e) : e \in Es(a + b + c) }
        from_b(a, b) == UNION { from_c(a, b, c) : c \in Cs(a + b) }
        from_a(a) == UNION { from_b(a, b) : b \in Bs(a) }
    IN  UNION { from_a(a) : a \in As }

RECURSIVE LexLess(_, _)
\* the order in which backtracking tries the ways: every part takes as
\* much as it can first
LexLess(x, y) ==
    IF x = <<>> THEN FALSE
    ELSE Head(x) < Head(y) \/ (Head(x) = Head(y) /\ LexLess(Tail(x), Tail(y)))

\* m.groups() for the way k = <<a, b, c, e, f>>, the second name behind the
\* first "second" characters
GroupsAt(t, g1, k, second) ==
    << SubSeq(t, 1, g1),
       SubSeq(t, g1 + 1, g1 + k[3]),
       SubSeq(t, g1 + k[3] + 1, g1 + k[3] + k[4]),
       SubSeq(t, second + g1 + 1, second + g1 + k[5]) >>

GroupsOf(t, k) ==
    GroupsAt(t, k[1] + k[2], k, PastDash(t, DashAt(t, k[1] + k[2] + k[3] + k[4])))

\* the groups of the way backtracking finds first, <<>> when there is none
FirstOf(t, fits) ==
    IF fits = {} THEN <<>>
    ELSE GroupsOf(t, CHOOSE x \in fits : \A y \in fits : ~LexLess(x, y))

\* reRanged.match(t).groups() for reRanged =
\* '([0-9A-Z_]*[0A-Z]+)([1-9][0-9]*)([0-9A-Z_]*)\s*[-\u2013]\s*\1([1-9][0-9]*)\3',
\* or <<>> for no match
reRanged_match(t) == FirstOf(t, RangedFits(t))

\* partition(pred, iterable): <<trues, falses>>
partition(pred(_), l) ==
    << SelectSeq(l, pred), SelectSeq(l, LAMBDA x : ~pred(x)) >>

\* range(lo, hi + 1) without its last number
range_exclusive(lo, hi) == [i \in 1..(hi - lo) |-> lo + i - 1]

\* range(lo, hi + 1)
range_inclusive(lo, hi) == [i \in 1..(hi - lo + 1) |-> lo + i - 1]

\* [(p[0] + '%d' % n + p[2], rs[1]) for n in range(int(p[1]), int(p[3])+1)]
expand_numbers(p, ns, value) ==
    [i \in DOMAIN ns |-> << p[1] \o ToDigits(ns[i]) \o p[3], value >>]

\* the same for the groups p of the match
expand_match(p, value) ==
    expand_numbers(p, range_inclusive(ToInt(p[2]), ToInt(p[4])), value)

expand_ranged(rs) == expand_match(reRanged_match(rs[1]), rs[2])

\* the body of "for grp, settinglist in settings.items()"
expand_group(settinglist) ==
    LET parts == partition(LAMBDA s : reRanged_match(s[1]) # <<>>, settinglist)
    IN  parts[2] \o Concat([i \in DOMAIN parts[1] |-> expand_ranged(parts[1][i])])

\* the setting lines written out by hand above
SmallLines == { p \in SettingLineChoices : Len(p.runs) # 3 }

\* the names of the ranged setting lines
RangeNames ==
    { <<"P", "B", "1", " ", "-", " ", "P", "B", "3">>,
      <<"P", "B", "0", "1", "-", "P", "B", "1", "2">>,
      <<"P", "B", "0", "1", "-", "P", "B", "0", "9">>,
      <<"P", "B", "1", "0", "-", "P", "B", "1", "2">>,
      <<"P", "B", "8", " ", "-", "P", "B", "1", "1">>,
      <<"P", "B", "3", "-", "P", "B", "1">>,
      <<"P", "1", "A", "-", "P", "3", "A">>,
      <<"P", "B", "1", "-", "P", "C", "3">> }

\* a setting line "<name> = ON", all bold
RangeLines ==
    { SettingPar("SettingLine", << Bold(n \o <<" ", "=", " ", "ON">>) >>) : n \in RangeNames }

SettingDocs ==
    { <<h, s>> : h \in HeadingChoices, s \in SettingLineChoices }
    \cup
    { <<h, r, s>> : h \in HeadingChoices, r \in RangeLines,
                    s \in RangeLines \cup SmallLines }
    \cup
    { <<s, h, t>> : s \in SettingLineChoices, h \in HeadingChoices,
                    t \in SmallLines }
    \cup
    { <<h, s, s>> : h \in HeadingChoices, s \in SettingLineChoices }
    \cup
    { <<h, s, g, t>> : h \in HeadingChoices, g \in HeadingChoices,
                       s \in SmallLines, t \in SmallLines }

\* Document(documentParam); settings = {}
InitSettings ==
    /\ doc \in SettingDocs
    /\ pc = "extract"
    /\ pi = 0
    /\ script = [name |-> "Word2SettingDBs", grp |-> Unbound, settings |-> <<>>]
    /\ err = "none"
    /\ call = NoCall
    /\ pre = NoDocument
    /\ yielded = <<>>
    /\ snap = <<>>
    /\ ncalls = 0
    /\ disk = NoFiles

\* the next paragraph of "for p in document.paragraphs"; an exception ends
\* the script in its except clause
ExtractParagraph ==
    /\ pc = "extract"
    /\ pi < Len(doc)
    /\ LET res == extract_paragraph(script.grp, script.settings, doc[pi + 1]) IN
       /\ script' = [script EXCEPT !.grp = res.grp, !.settings = res.settings]
       /\ err' = res.err
       /\ pc' = IF res.err = "none" THEN "extract" ELSE "done"
    /\ pi' = pi + 1
    /\ UNCHANGED <<doc, call, pre, yielded, snap, ncalls, disk>>

\* the paragraphs are through
ExtractEnd ==
    /\ pc = "extract"
    /\ pi = Len(doc)
    /\ pc' = "extracted"
    /\ UNCHANGED <<doc, err, call, pre, yielded, snap, pi, ncalls, disk, script>>

\* lines 371-379: the ranged settings of every group are expanded
ExpandRanges ==
    /\ pc = "extracted"
    /\ script' = [script EXCEPT !.settings =
                     [g \in DOMAIN script.settings |-> expand_group(script.settings[g])]]
    /\ pc' = "expanded"
    /\ UNCHANGED <<doc, err, call, pre, yielded, snap, pi, ncalls, disk>>

NextSettings ==
    \/ ExtractParagraph
    \/ ExtractEnd
    \/ ExpandRanges

SpecSettings == InitSettings /\ [][NextSettings]_vars

\* the text of the runs of p that are bold and not struck through
BoldText(p) ==
    LET keep(k) == p.runs[k].bold = "True" /\ p.runs[k].strike # "True"
    IN  Concat([k \in DOMAIN p.runs |-> IF keep(k) THEN p.runs[k].text ELSE <<>>])

\* the positions of t that hold the '=' of "name = value": the first '=',
\* with a name before it
EqAt(t) ==
    { k \in DOMAIN t : /\ t[k] = "="
                       /\ \A j \in 1..(k - 1) : t[j] # "="
                       /\ \E j \in 1..(k - 1) : t[j] # " " }

\* the stripped (name, value) pair of a text with EqAt(t) # {}
PairOf(t) ==
    LET k == CHOOSE k \in EqAt(t) : TRUE
    IN  << strip(SubSeq(t, 1, k - 1)), strip(SubSeq(t, k + 1, Len(t))) >>

\* the group a heading paragraph names, Unbound when it names none
HeadingGroup(p) ==
    IF p.style = "Heading 1" THEN heading1(Unbound, SettingParText(p))
    ELSE IF p.style = "Heading 2" THEN heading2(Unbound, SettingParText(p))
    ELSE Unbound

\* the group of the most recent matching heading at paragraph i
GroupAt(d, i) ==
    LET hs == { j \in 1..i : HeadingGroup(d[j]) # Unbound }
    IN  IF hs = {} THEN Unbound
        ELSE HeadingGroup(d[CHOOSE j \in hs : \A h \in hs : h <= j])

\* paragraph i is a setting line whose bold text reads name = value
IsSetting(d, i) == d[i].style \in SettingStyles /\ EqAt(BoldText(d[i])) # {}

\* the pairs of the setting lines among the first n paragraphs that stand
\* under group g, in document order
SettingsUnder(d, g, n) ==
    LET is == SelectSeq([i \in 1..n |-> i],
                        LAMBDA i : IsSetting(d, i) /\ GroupAt(d, i) = g)
    IN  [k \in DOMAIN is |-> PairOf(BoldText(d[is[k]]))]

\* C20: while the extraction loop of Word2SettingDBs runs without an
\* exception, the settings of every group are exactly the stripped
\* (name, value) pairs read from the bold, not struck through runs of the
\* SettingLine / SettingLineStandard paragraphs processed so far that
\* stand under the most recent matching heading of that group, in
\* document order; no other run and no other paragraph contributes.
C20_SettingFromBoldRuns ==
    (err = "none" /\ pc \in {"extract", "extracted"}) =>
        \A g \in DOMAIN script.settings \cup { GroupAt(doc, i) : i \in 1..pi } :
            g # Unbound =>
                /\ g \in DOMAIN script.settings => script.settings[g] # <<>>
                /\ SettingsUnder(doc, g, pi) =
                      IF g \in DOMAIN script.settings THEN script.settings[g] ELSE <<>>

\* the paragraph "Settings: 51P = 5.0 OFF" with "51P" and "= 5.0" bold has
\* been processed under the heading GLOBAL and gave ("51P", "5.0")
C20_Witness ==
    /\ pi >= 2
    /\ err = "none"
    /\ doc[pi].style = "SettingLine"
    /\ SettingParText(doc[pi]) =
          <<"Settings:", " ", "51P", " ", "=", " ", "5.0", " ", "OFF">>
    /\ script.grp = <<"GLOBAL">>
    /\ <<"GLOBAL">> \in DOMAIN script.settings
    /\ script.settings[<<"GLOBAL">>][Len(script.settings[<<"GLOBAL">>])]
          = << <<"51P">>, <<"5.0">> >>

\* ------------------------------------------------------------------------
\* find_replace: the runs no match touches
\* ------------------------------------------------------------------------

\* the 0-based indices of the runs of paragraph p that overlap no match of
\* the pattern in the paragraph's flattened text
UntouchedRuns(d, p, pat) ==
    LET idx == run_idx(d, p)
        ms == finditer(pat, ParText(d, p))
    IN  { n \in 0..(Len(d.runs[p]) - 1) :
            \A j \in DOMAIN ms : ms[j].end <= idx[n + 1] \/ ms[j].start >= idx[n + 2] }

\* by how much the replacements before offset x move the text after them
ShiftAt(pat, repl, text, x) ==
    LET ms == finditer(pat, text)
    IN  Cardinality({ j \in DOMAIN ms : ms[j].end <= x }) * (Len(repl) - Len(pat))

\* C21 (as claimed): when find_replace has returned, every run of a
\* matching paragraph that overlapped no match is still a run of its own
\* with its text: the paragraph has a run with that text at the place the
\* replacements before it moved it to, for any number of matches.
C21_UntouchedRunsKept ==
    (Returned("find_replace") /\ search(call.find, ParText(pre, 2))) =>
        LET idx == run_idx(pre, 2)
            now == run_idx(doc, 2)
        IN  \A n \in UntouchedRuns(pre, 2, call.find) :
               \E k \in DOMAIN doc.runs[2] :
                  /\ doc.runs[2][k].text = pre.runs[2][n + 1].text
                  /\ now[k] = idx[n + 1]
                              + ShiftAt(call.find, call.repl, ParText(pre, 2), idx[n + 1])

\* ------------------------------------------------------------------------
\* remove_highlighted: rows and tables, and the flag clean_logic_tables
\* ------------------------------------------------------------------------

\* the rows and tables the call took out of their parent
Detached(tg) ==
    { n \in Nodes(pre) : pre.tag[n] = tg /\ pre.parent[n] # None /\ doc.parent[n] = None }

PlaceholderWith(word, t) ==
    \E n \in 1..Len(t) :
        /\ \A i \in 1..n : t[i] \in Digits
        /\ Len(t) > n
        /\ t[n + 1] = ":"
        /\ LET rest == SubSeq(t, n + 2, Len(t)) IN
           \/ rest = <<>>
           \/ /\ IsPrefix(word, rest)
              /\ \A i \in (Len(word) + 1)..Len(rest) : rest[i] = " "

\* the rows of the document before the call in a cell of which the call
\* cleared a run with text, and whose text is a placeholder afterwards
PlaceholderRows ==
    { row \in Nodes(pre) :
        /\ pre.tag[row] = "tr"
        /\ InBody(pre, row)
        /\ \E p \in Nodes(pre) :
              /\ pre.tag[p] = "p"
              /\ pre.parent[p] # None
              /\ pre.tag[pre.parent[p]] = "tc"
              /\ pre.parent[pre.parent[p]] = row
              /\ HadColoredText(pre, p, call.color)
        /\ \/ PlaceholderWith(Not52AA1, FullText(doc, row))
           \/ PlaceholderWith(Not52AA1Or2, FullText(doc, row)) }

\* C23 (as claimed): with clean_logic_tables set, a table row in which a
\* matching run was cleared and whose remaining text is '<digits>:',
\* optionally followed by 'NOT 52AA1' or 'NOT (52AA1 OR 52AA2)' and spaces,
\* is deleted like an empty row; with the flag unset the same row is kept.
C23_PlaceholderRowDeleted ==
    RHReturned =>
        \A row \in PlaceholderRows :
            IF call.clean THEN ~InBody(doc, row)
            ELSE doc.parent[row] = pre.parent[row]

\* C24 (as claimed): a removal pass of SplitByHighlighting never leaves a
\* table cell of the document with zero paragraphs; the only paragraph of a
\* cell stays in the cell when clearing its runs empties it.
C24_SplitCellFloor ==
    call.fn = "split_remove" =>
        \A c \in Nodes(doc) :
            (doc.tag[c] = "tc" /\ InBody(doc, c)) => Len(KidsTagged(doc, c, "p")) >= 1

\* ------------------------------------------------------------------------
\* Ranged settings, stated on the names
\* ------------------------------------------------------------------------

\* the digits at the end of t are all zeros (or there are none)
EndsInLetterOrZeros(t) ==
    /\ t # <<>>
    /\ t[Len(t)] \in UpperLetters \cup {"0"}
    /\ \A i \in DOMAIN t :
          (\A j \in i..Len(t) : t[j] \in Digits) => t[i] = "0"

\* the readings of a name as a range: <<P, n, S, m>> for a name
\* P n S - P m S with the same prefix P and suffix S on both sides, n and m
\* written without leading zero (zeros before them belong to P) and S not
\* starting with a digit
RangeReadings(name) ==
    LET N == Len(name)
        heads == { k \in (1..N) \X (1..N) :
                     /\ k[1] + k[2] < N
                     /\ AllIn(SubSeq(name, 1, k[1]), NameClass)
                     /\ EndsInLetterOrZeros(SubSeq(name, 1, k[1]))
                     /\ IsNumber(SubSeq(name, k[1] + 1, k[1] + k[2]))
                     /\ name[k[1] + k[2] + 1] \notin Digits }
        fits(k, ls, l2) ==
            /\ k[1] + k[2] + ls + 1 + k[1] + l2 + ls <= N
            /\ AllIn(SubSeq(name, k[1] + k[2] + 1, k[1] + k[2] + ls), NameClass)
            /\ IsNumber(SubSeq(name, N - ls - l2 + 1, N - ls))
            /\ SubSeq(name, N - ls + 1, N) = SubSeq(name, k[1] + k[2] + 1, k[1] + k[2] + ls)
            /\ SubSeq(name, N - ls - l2 - k[1] + 1, N - ls - l2) = SubSeq(name, 1, k[1])
            /\ name[N - ls - l2 - k[1]] \notin Digits
            /\ \E w1, w2 \in 0..N :
                  /\ k[1] + k[2] + ls + w1 + 1 + w2 + k[1] + l2 + ls = N
                  /\ AllIn(SubSeq(name, k[1] + k[2] + ls + 1, k[1] + k[2] + ls + w1), {" "})
                  /\ name[k[1] + k[2] + ls + w1 + 1] = "-"
                  /\ AllIn(SubSeq(name, k[1] + k[2] + ls + w1 + 2,
                                  k[1] + k[2] + ls + w1 + 1 + w2), {" "})
    IN  UNION { { << SubSeq(name, 1, k[1]),
                     ToInt(SubSeq(name, k[1] + 1, k[1] + k[2])),
                     SubSeq(name, k[1] + k[2] + 1, k[1] + k[2] + x[1]),
                     ToInt(SubSeq(name, N - x[1] - x[2] + 1, N - x[1])) >> :
                    x \in { y \in (0..N) \X (1..N) : fits(k, y[1], y[2]) } }
                : k \in heads }

IsRange(name) == RangeReadings(name) # {}

\* the settings Pn S, ..., Pm S with the value of the ranged entry
RangeSettings(s) ==
    LET r == CHOOSE r \in RangeReadings(s[1]) : TRUE
    IN  [i \in 1..(r[4] - r[2] + 1) |-> << r[1] \o ToDigits(r[2] + i - 1) \o r[3], s[2] >>]

\* C25: once the ranges are expanded, a group whose ranged names all run
\* upwards (n <= m) holds its settings with other names as they were, and
\* for every entry named Pn S - Pm S with value V the m-n+1 settings
\* Pn S, ..., Pm S with value V in its place; the ranged entry is gone. A
\* name like PB01-PB12, whose leading zero is not part of a common prefix,
\* is no range and stays; PB01-PB09 and PB10-PB12 are expanded.
C25_RangesExpanded ==
    pc = "expanded" =>
        \A g \in DOMAIN script.settings :
            LET before == SettingsUnder(doc, g, Len(doc))
                ranged == SelectSeq(before, LAMBDA s : IsRange(s[1]))
                others == SelectSeq(before, LAMBDA s : ~IsRange(s[1]))
            IN  (\A i \in DOMAIN ranged :
                    \A r \in RangeReadings(ranged[i][1]) : r[2] <= r[4])
                => /\ script.settings[g]
                        = others \o Concat([i \in DOMAIN ranged |-> RangeSettings(ranged[i])])
                   /\ \A i \in DOMAIN ranged : ranged[i] \notin Range(script.settings[g])

\* PB01-PB09 = ON was expanded to PB01 ... PB09 next to PB01-PB12 = ON,
\* which stays as it is
C25_Witness ==
    /\ pc = "expanded"
    /\ \E g \in DOMAIN script.settings :
          /\ Len(script.settings[g]) = 10
          /\ script.settings[g][1] = << <<"P", "B", "0", "1", "-", "P", "B", "1", "2">>, <<"ON">> >>
          /\ script.settings[g][2] = << <<"P", "B", "0", "1">>, <<"ON">> >>
          /\ script.settings[g][10] = << <<"P", "B", "0", "9">>, <<"ON">> >>

\* C26 (as claimed): when find_replace has returned, the flattened text of
\* every traversed paragraph (here: whose text is all in runs) is its
\* original flattened text with every non-overlapping occurrence of the
\* pattern replaced, whatever the run boundaries and however many
\* occurrences cross them.
C26_AllOccurrencesReplaced ==
    Returned("find_replace") =>
        \A i \in DOMAIN snap :
            pre.link[snap[i]] = <<>> =>
                ParText(doc, snap[i]) = sub(call.find, call.repl, ParText(pre, snap[i]))

\* ------------------------------------------------------------------------
\* make_line_relay_templates: the order of the colors
\* ------------------------------------------------------------------------

\* the orders a set can be gone through in
Orders(S) ==
    { s \in [1..Cardinality(S) -> S] : \A i, j \in DOMAIN s : s[i] = s[j] => i = j }

RECURSIVE RemoveInOrder(_, _, _)
\* remove_highlighted(document, color, clean) for the colors in the given
\* order, up to the first call that raises
RemoveInOrder(d, colors, clean) ==
    IF colors = <<>> THEN Ok(d)
    ELSE LET r == remove_highlighted(d, Head(colors), clean)
         IN  IF r.err # "none" THEN r ELSE RemoveInOrder(r.doc, Tail(colors), clean)

RECURSIVE Outline(_, _)
\* what is left at and below n: the elements and the text of the paragraphs
Outline(d, n) ==
    << d.tag[n],
       IF d.tag[n] = "p" THEN ParText(d, n) ELSE <<>>,
       [i \in DOMAIN d.kids[n] |-> Outline(d, d.kids[n][i])] >>

\* make_line_relay_templates has removed all its colors without an exception
TemplateEdited ==
    /\ script.name = "make_line_relay_templates"
    /\ pc = "editing"
    /\ script.remove = {}
    /\ err = "none"

\* C27 (as claimed): the document make_line_relay_templates is left with
\* after removing the colors of all_colors - colors_to_keep[std] (its text,
\* paragraphs, rows and tables) is the one every other order of the same
\* remove_highlighted(document, color, clean_logic_tables=True) calls gives.
C27_OrderIndependent ==
    TemplateEdited =>
        \A order \in Orders(colors_to_remove(script.name, script.std)) :
            LET r == RemoveInOrder(script.master[script.documentParam], order, TRUE)
            IN  r.err = "none" => Outline(r.doc, 1) = Outline(doc, 1)

\* the texts of the runs of the document that are not highlighted in the
\* color and hold text, in document order
OtherRunTexts(d, color) ==
    LET ps == FindAllP(d)
        ofPar(p) == LET rs == SelectSeq(d.runs[p], LAMBDA r : r.hl # color /\ r.text # <<>>)
                    IN  [k \in DOMAIN rs |-> rs[k].text]
    IN  Concat([i \in DOMAIN ps |-> ofPar(ps[i])])

\* C28 (as claimed): remove_highlighted(document, color) with
\* clean_logic_tables false leaves the texts of the runs of every other
\* highlight, in document order and with the tables nested in cells, as
\* they were before the call.
C28_OtherTextKept ==
    (RHReturned /\ ~call.clean) =>
        OtherRunTexts(doc, call.color) = OtherRunTexts(pre, call.color)

\* ------------------------------------------------------------------------
\* change_pri_421_to_411L: the replacements of the primary relay
\* ------------------------------------------------------------------------

\* the results of get_bookmark_par_element that are no element, the
\* integers 1 (no bookmark of the name) and 2 (its parent is no paragraph):
\* values that are not None and are equal to no element of the document
NoBookmarkFound == -1
BookmarkError == -2

\* get_bookmark_par_element(document, bookmark_name); bm is the parent of
\* the bookmarkStart element of that name, None when there is none
get_bookmark_par_element(d, bm) ==
    IF bm = None \/ ~InBody(d, bm) THEN NoBookmarkFound
    ELSE IF d.tag[bm] # "p" THEN BookmarkError
    ELSE bm

\* replace_list of change_pri_421_to_411L; a name and its number are one
\* symbol each, the analog quantities one symbol
pri_replace_list ==
    << << <<"OUT", "2">>, <<"OUT", "3">> >>,
       << <<"OUT", "1">>, <<"OUT", "2">> >>,
       << <<"IN", "2">>, <<"IN", "3">> >>,
       << <<"IN", "1">>, <<"IN", "2">> >>,
       << <<"IAXM">>, <<"IAXFM">> >>,
       << <<"IBXM">>, <<"IBXFM">> >>,
       << <<"ICXM">>, <<"ICXVM">> >>,
       << <<"51S1T">>, <<"51T01">> >> >>

\* the paragraphs of the documents change_pri_421_to_411L is run on
PriParChoices ==
    { <<Run(<<"OUT", "1">>, "NONE")>>,
      <<Run(<<"IN">>, "NONE"), Run(<<"2", "z">>, "NONE")>>,
      <<Run(<<"87P-0X", "IAXM">>, "NONE")>> }

PriDocs ==
    { MkDoc(RowsTag, RowsKids,
            [n \in DOMAIN RowsTag |-> IF RowsTag[n] = "p" THEN c[n] ELSE <<>>],
            [n \in DOMAIN RowsTag |-> "NONE"])
      : c \in [ParsOfTag(RowsTag) -> PriParChoices] }

\* replace_start = get_bookmark_par_element(document, 'SecondarySettingsStart')
PriBookmark ==
    /\ pc = "start"
    /\ script' = [script EXCEPT
                     !.replace_start = get_bookmark_par_element(doc, script.bookmark),
                     !.replace = pri_replace_list]
    /\ pc' = "replacing"
    /\ UNCHANGED <<doc, err, call, pre, yielded, snap, pi, ncalls, disk>>

\* for find_text, replace_text in replace_list:
\*     find_replace(document, find_text, replace_text, end=replace_start)
PriReplace ==
    /\ pc = "replacing"
    /\ script.replace # <<>>
    /\ LET fr == Head(script.replace)
           res == find_replace(doc, fr[1], fr[2], None, script.replace_start)
       IN  /\ doc' = res.doc
           /\ err' = res.err
           /\ pc' = IF res.err = "none" THEN "replacing" ELSE "done"
           /\ call' = [NoCall EXCEPT !.fn = "find_replace", !.find = fr[1],
                                     !.repl = fr[2], !.end = script.replace_start]
           /\ script' = [script EXCEPT !.replace = Tail(@)]
    /\ yielded' = iter_all_paragraphs(doc, None, script.replace_start)
    /\ pre' = doc
    /\ UNCHANGED <<snap, pi, ncalls, disk>>

\* find_replace(document, '87P-0X', '87P-LZZ')
PriReplaceAll ==
    /\ pc = "replacing"
    /\ script.replace = <<>>
    /\ LET res == find_replace(doc, <<"87P-0X">>, <<"87P-LZZ">>, None, None)
       IN  /\ doc' = res.doc
           /\ err' = res.err
           /\ call' = [NoCall EXCEPT !.fn = "find_replace", !.find = <<"87P-0X">>,
                                     !.repl = <<"87P-LZZ">>]
    /\ yielded' = iter_all_paragraphs(doc, None, None)
    /\ pre' = doc
    /\ pc' = "done"
    /\ UNCHANGED <<snap, pi, ncalls, disk, script>>

InitPri ==
    /\ doc \in PriDocs
    /\ \E bm \in {None} \cup DOMAIN RowsTag :
          script = [NoScript EXCEPT !.name = "change_pri_421_to_411L", !.bookmark = bm]
    /\ pc = "start"
    /\ err = "none"
    /\ call = NoCall
    /\ pre = doc
    /\ yielded = <<>>
    /\ snap = <<>>
    /\ pi = 0
    /\ ncalls = 0
    /\ disk = NoFiles

NextPri ==
    \/ PriBookmark
    \/ PriReplace
    \/ PriReplaceAll

SpecPri == InitPri /\ [][NextPri]_vars

\* the paragraphs of the document behind paragraph p, in document order
ParsAfter(d, p) ==
    LET all == FindAllP(d)
        at == CHOOSE i \in DOMAIN all : all[i] = p
    IN  { all[i] : i \in (at + 1)..Len(all) }

\* one of the eight replacements of replace_list has just been made
PriReplaced == call.fn = "find_replace" /\ call.end # None

\* C29: each of the eight replacements of change_pri_421_to_411L leaves the
\* paragraphs behind the paragraph of the bookmark SecondarySettingsStart as
\* they were, and when get_bookmark_par_element returned 1 or 2 instead of a
\* paragraph the replacement does not go through all the paragraphs of the
\* document.
C29_ReplacementsConfined ==
    PriReplaced =>
        IF call.end \in Nodes(pre)
        THEN \A p \in ParsAfter(pre, call.end) : doc.runs[p] = pre.runs[p]
        ELSE yielded # FindAllP(pre)

\* ------------------------------------------------------------------------
\* Word2SettingDBs: the settings split into lists (SPAQ, ERAQ) and the
\* SEL-487B zone assignments
\* ------------------------------------------------------------------------

max_zone == 126

ReportGrp == <<"REPORT">>
ZoneGrp == <<"ZONE 1">>

\* findSetting's "not found"
PyNone == <<"None">>

RECURSIVE split(_)
\* t.split(',')
split(t) ==
    LET at == { i \in DOMAIN t : t[i] = "," } IN
    IF at = {} THEN <<t>>
    ELSE LET i == CHOOSE i \in at : \A j \in at : i <= j
         IN  <<SubSeq(t, 1, i - 1)>> \o split(SubSeq(t, i + 1, Len(t)))

\* stripall(l)
stripall(l) == [i \in DOMAIN l |-> strip(l[i])]

\* findSetting(setting_list, setting)
findSetting(setting_list, setting) ==
    LET hits == { i \in DOMAIN setting_list : setting_list[i][1] = setting } IN
    IF hits = {} THEN PyNone
    ELSE setting_list[CHOOSE i \in hits : \A j \in hits : i <= j][2]

\* list(zip(names, vals))
zip(names, vals) ==
    [i \in 1..(IF Len(names) < Len(vals) THEN Len(names) ELSE Len(vals)) |->
        <<names[i], vals[i]>>]

\* ['']*n
Blanks(n) == [i \in 1..n |-> <<>>]

\* [prefix + '%d' % n for n in range(1, count + 1)]
Numbered(prefix, count) == [n \in 1..count |-> prefix \o ToDigits(n)]

\* lines 706-713 and 716-722: the first setting of the REPORT group whose
\* name starts with the word is split at its commas into word1, word2, ...
\* The result is [settings, valList, bound]
list_setting(word, family, settings, valList, bound) ==
    IF family = "4XX" /\ ReportGrp \in DOMAIN settings
    THEN LET parts == partition(LAMBDA s : s[1] # <<>> /\ s[1][1] = word,
                                settings[ReportGrp])
         IN  IF Len(parts[1]) > 0
             THEN LET vals == stripall(split(parts[1][1][2]))
                  IN  [settings |-> [settings EXCEPT ![ReportGrp] =
                                        parts[2] \o zip(Numbered(<<word>>, Len(vals)), vals)],
                       valList |-> vals, bound |-> TRUE]
             ELSE [settings |-> [settings EXCEPT ![ReportGrp] = parts[2]],
                   valList |-> valList, bound |-> bound]
    ELSE [settings |-> settings, valList |-> valList, bound |-> bound]

\* reZoneSetting.match(name): 'Connect (I[012][0-9])-(BZ[1-6])' with re.I;
\* "Connect" is one symbol of the text
reZoneSetting_match(name) ==
    /\ Len(name) >= 9
    /\ Upper(name[1]) = "CONNECT"
    /\ name[2] = " "
    /\ name[3] = "I"
    /\ name[4] \in {"0", "1", "2"}
    /\ name[5] \in Digits
    /\ name[6] = "-"
    /\ name[7] = "B"
    /\ name[8] = "Z"
    /\ name[9] \in {"1", "2", "3", "4", "5", "6"}

\* m.group('TERM'), m.group('ZONE')
TERM(name) == SubSeq(name, 3, 5)
ZONE(name) == SubSeq(name, 7, 9)

\* 'Polarity %s-%s' % (m.group('TERM'), m.group('ZONE'))
PolarityName(name) == <<"Polarity", " ">> \o TERM(name) \o <<"-">> \o ZONE(name)

\* the padding of the three value lists: ['']*(max_zone - len(valList)),
\* valList being the list an earlier block left behind
zone_padding(valList) ==
    Blanks(IF max_zone - Len(valList) > 0 THEN max_zone - Len(valList) ELSE 0)

\* lines 742-768 for a SEL-487B with the group ZONE 1; the result is
\* [settings, err]: NameError when no earlier block has assigned valList
zone_assignments(settings, valList, bound) ==
    LET parts == partition(LAMBDA s : reZoneSetting_match(s[1]), settings[ZoneGrp])
        ys == SelectSeq(parts[1], LAMBDA s : s[2] = <<"Y">>)
        termValList == [i \in DOMAIN ys |-> TERM(ys[i][1])]
        zoneValList == [i \in DOMAIN ys |-> ZONE(ys[i][1])]
        polValList == [i \in DOMAIN ys |-> findSetting(parts[2], PolarityName(ys[i][1]))]
        pad == zone_padding(valList)
    IN  IF ~bound
        THEN [settings |-> [settings EXCEPT ![ZoneGrp] = parts[2]], err |-> "NameError"]
        ELSE [settings |-> [settings EXCEPT ![ZoneGrp] =
                               parts[2]
                               \o zip(Numbered(<<"TBZT">>, max_zone), termValList \o pad)
                               \o zip(Numbered(<<"TBZB">>, max_zone), zoneValList \o pad)
                               \o zip(Numbered(<<"TBZP">>, max_zone), polValList \o pad)],
              err |-> "none"]

\* the zone settings of the documents
ConnectName(w, d1, d2, z) == <<w, " ", "I", d1, d2, "-", "B", "Z", z>>

ConnectLines ==
    { << ConnectName("Connect", "0", "1", "1"), <<"Y">> >>,
      << ConnectName("Connect", "0", "2", "1"), <<"N">> >>,
      << ConnectName("connect", "0", "2", "2"), <<"Y">> >>,
      << ConnectName("Connect", "1", "2", "6"), <<"Y">> >>,
      << ConnectName("Connect", "3", "1", "1"), <<"Y">> >> }

PolarityLines ==
    { << <<"Polarity", " ", "I", "0", "1", "-", "B", "Z", "1">>, <<"P">> >>,
      << <<"Polarity", " ", "I", "0", "2", "-", "B", "Z", "2">>, <<"N">> >>,
      << <<"E", "8", "7">>, <<"Y">> >> }

ZoneGroups ==
    { <<>> }
    \cup { <<a>> : a \in ConnectLines \cup PolarityLines }
    \cup { <<a, b>> : a \in ConnectLines \cup PolarityLines, b \in ConnectLines }
    \cup { <<a, p, b, c>> : a \in ConnectLines, p \in PolarityLines,
                            b \in ConnectLines, c \in ConnectLines }

ReportGroups ==
    { <<>>,
      << << <<"ERAQ">>, <<"a", ",", " ", "b">> >> >>,
      << << <<"SPAQ">>, <<"a">> >>, << <<"S", "R", "A", "T", "E">>, <<"1">> >> >>,
      << << <<"SPAQ">>, <<"a", ",", "b", ",", "c">> >>, << <<"ERAQ">>, <<>> >> >> }

\* valList as the blocks before line 706 leave it: not assigned, the 250
\* rows of the protection logic table, the 100 rows of the automation logic
\* table, the five values of a display point
EarlierLists ==
    { [bound |-> FALSE, valList |-> <<>>],
      [bound |-> TRUE,  valList |-> <<<<"1">>>> \o Blanks(249)],
      [bound |-> TRUE,  valList |-> <<<<"1">>>> \o Blanks(99)],
      [bound |-> TRUE,  valList |-> <<<<"1">>>> \o Blanks(4)] }

\* the settings with the groups REPORT and ZONE 1 as given; has says
\* which of the two the document has
SettingsWith(has, report, zone) ==
    [g \in has |-> IF g = ReportGrp THEN report ELSE zone]

InitZones ==
    /\ \E has \in SUBSET {ReportGrp, ZoneGrp}, report \in ReportGroups, zone \in ZoneGroups,
          e \in EarlierLists, t \in {"SEL-487B", "SEL-421"} :
          /\ ReportGrp \notin has => report = <<>>
          /\ ZoneGrp \notin has => zone = <<>>
          /\ script = [name |-> "Word2SettingDBs", rly_type |-> t, rly_family |-> "4XX",
                       settings |-> SettingsWith(has, report, zone),
                       valList |-> e.valList, bound |-> e.bound]
    /\ pc = "spaq"
    /\ doc = NoDocument
    /\ pre = NoDocument
    /\ err = "none"
    /\ call = NoCall
    /\ yielded = <<>>
    /\ snap = <<>>
    /\ pi = 0
    /\ ncalls = 0
    /\ disk = NoFiles

\* lines 706-713
SplitSPAQ ==
    /\ pc = "spaq"
    /\ LET res == list_setting("SPAQ", script.rly_family, script.settings,
                               script.valList, script.bound)
       IN  script' = [script EXCEPT !.settings = res.settings, !.valList = res.valList,
                                    !.bound = res.bound]
    /\ pc' = "eraq"
    /\ UNCHANGED <<doc, err, call, pre, yielded, snap, pi, ncalls, disk>>

\* lines 716-722
SplitERAQ ==
    /\ pc = "eraq"
    /\ LET res == list_setting("ERAQ", script.rly_family, script.settings,
                               script.valList, script.bound)
       IN  script' = [script EXCEPT !.settings = res.settings, !.valList = res.valList,
                                    !.bound = res.bound]
    /\ pc' = "zones"
    /\ UNCHANGED <<doc, err, call, pre, yielded, snap, pi, ncalls, disk>>

\* lines 742-768; snap keeps the group as the block found it
ZoneAssignments ==
    /\ pc = "zones"
    /\ script.rly_type = "SEL-487B"
    /\ ZoneGrp \in DOMAIN script.settings
    /\ LET res == zone_assignments(script.settings, script.valList, script.bound)
       IN  /\ script' = [script EXCEPT !.settings = res.settings]
           /\ err' = res.err
    /\ snap' = script.settings[ZoneGrp]
    /\ pc' = "zoned"
    /\ UNCHANGED <<doc, call, pre, yielded, pi, ncalls, disk>>

\* line 743: another relay, or no group ZONE 1
NoZones ==
    /\ pc = "zones"
    /\ ~(script.rly_type = "SEL-487B" /\ ZoneGrp \in DOMAIN script.settings)
    /\ pc' = "skipped"
    /\ UNCHANGED <<doc, err, call, pre, yielded, snap, pi, ncalls, disk, script>>

NextZones ==
    \/ SplitSPAQ
    \/ SplitERAQ
    \/ ZoneAssignments
    \/ NoZones

SpecZones == InitZones /\ [][NextZones]_vars

\* the 'Connect Ixx-BZy' settings of the group with the value 'Y', in order
ConnectedIn(group) ==
    SelectSeq(group, LAMBDA s : reZoneSetting_match(s[1]) /\ s[2] = <<"Y">>)

\* the values of the entries of the group with the name
ValuesOf(group, name) ==
    LET at == SelectSeq([i \in DOMAIN group |-> i], LAMBDA i : group[i][1] = name)
    IN  [i \in DOMAIN at |-> group[at[i]][2]]

\* C30: after the zone processing of a SEL-487B the group ZONE 1 holds one
\* TBZTn, one TBZBn and one TBZPn for every n in 1..126; for the k
\* 'Connect Ixx-BZy' settings with the value 'Y' the first k hold the
\* terminal, the zone and the polarity setting of the pair, in order, and
\* the others hold the empty string, whatever list an earlier block built.
C30_ZoneEntries ==
    pc = "zoned" =>
        LET ys == ConnectedIn(snap)
            group == script.settings[ZoneGrp]
        IN  \A n \in 1..max_zone :
               /\ ValuesOf(group, <<"TBZT">> \o ToDigits(n))
                     = << IF n <= Len(ys) THEN TERM(ys[n][1]) ELSE <<>> >>
               /\ ValuesOf(group, <<"TBZB">> \o ToDigits(n))
                     = << IF n <= Len(ys) THEN ZONE(ys[n][1]) ELSE <<>> >>
               /\ ValuesOf(group, <<"TBZP">> \o ToDigits(n))
                     = << IF n <= Len(ys)
                          THEN findSetting(snap, PolarityName(ys[n][1])) ELSE <<>> >>

====
